---- MODULE Spec2Model ----
(***************************************************************************)
(* Model of the call-orchestration layer of COD-DeepSeek-V3.1.             *)
(*                                                                         *)
(*   - the connection cache of the resilient RAG handler                   *)
(*     (src/unnamed/part_000, connectToDatabase), callable concurrently;   *)
(*   - the resilient RAG handler itself (src/unnamed/part_000,             *)
(*     module.exports), one step per suspension point (await);             *)
(*   - the basic RAG handler (src/api/rag.js).                             *)
(*                                                                         *)
(* JavaScript is single-threaded: code between two awaits is one atomic    *)
(* step.  Continuations of settled promises are microtasks and run before  *)
(* any timer or I/O completion, which is what Quiescent states.            *)
(***************************************************************************)
EXTENDS Integers, Sequences, FiniteSets, TLC

\* ------------------------------------------------------------------ bounds
\* Number of connectToDatabase calls in the cache-only specification.
NumCalls == 3
\* Number of HTTP requests handled in the handler specifications.
NumReq == 2

\* ------------------------------------------------------- program constants
\* doc.response.substring(0, 200)
TruncLen == 200
\* knnBeta: { k: 5 }
TopK == 5

Callers == 1..NumCalls
Req == 1..NumReq
\* Every call starts at most one client.connect(): attempt ids.
Attempts == 1..NumCalls
\* JavaScript null (for the cache variables, which hold an attempt id otherwise).
Null == 0

VARIABLES
    \* module-level state of the handler module
    connectionPromise,  \* Null, or the attempt whose promise the cache holds
    cachedDb,           \* Null, or the handle (named by the attempt that made it)
    cachedClient,       \* Null, or the client of that attempt
    \* the environment: process.env and the store's connection attempts
    fireworksApiKey,    \* BOOLEAN: process.env.FIREWORKS_API_KEY is set
    mongoDbUri,         \* BOOLEAN: process.env.MONGODB_URI is set
    attempt,            \* attempt -> "unused" | "pending" | "resolved" | "rejected"
    \* one connectToDatabase invocation per caller
    callSt,             \* "none" | "await" (line 14) | "adopt" (line 61) | "returned"
    callP,              \* the promise (attempt) the call awaits or has returned
    callH,              \* the handle the call returned
    joined,             \* history: the in-flight attempt the call first waited on
    \* one handler invocation per request
    pc,                 \* the await the handler is suspended at
    request,            \* req: its method and body
    query,              \* const { query } = requestBody
    messages,           \* const messages (the chat turns sent to the LLM)
    usedFallback,       \* let usedFallback
    queryResult,        \* let queryResult (document ids, in the store's order)
    issued,             \* history: the upstream calls the handler has issued, in order
    outcome,            \* history: how each stage of the request ended
    resp,               \* the HTTP response written, or NoResp
    written,            \* history: how many responses the handler has written
    \* one invocation of the retrying proxy function (netlify/functions/api-proxy.js)
    variant,            \* which of the three versions of the function runs
    apiKey,             \* BOOLEAN: process.env.DEEPSEEKAPI / DEEPSEEK_API_KEY is set
    ppc,                \* the await the proxy handler is suspended at
    event,              \* event: its httpMethod and body
    cleanedParams,      \* const cleanedParams (the upstream request body)
    retries,            \* let retries
    response,           \* let response
    fetches,            \* history: the number of fetch() calls started
    attempts,           \* history: how each upstream request ended, in order
    waits,              \* history: the backoff delays slept (ms), in order
    result,             \* the value the handler returned, or NoResult
    \* one invocation of the streaming relay (api/streaming-proxy.js)
    upstream,           \* the text of the upstream response body
    pos,                \* how much of it reader.read() has delivered
    buffer,             \* let buffer
    sink,               \* the events written to res, in order
    opened,             \* BOOLEAN: res.writeHead(200, event-stream headers) was called
    ended,              \* the number of res.end() calls
    timer               \* BOOLEAN: the abort timer (timeoutId) is armed

cacheVars == <<connectionPromise, cachedDb, cachedClient, attempt>>
callVars == <<callSt, callP, callH, joined>>
envVars == <<fireworksApiKey, mongoDbUri>>
reqVars == <<pc, request, query, messages, usedFallback, queryResult, issued, outcome,
            resp, written>>
ragVars == <<connectionPromise, cachedDb, cachedClient, fireworksApiKey, mongoDbUri,
             attempt, callSt, callP, callH, joined,
             pc, request, query, messages, usedFallback, queryResult, issued,
             outcome, resp, written>>
proxyVars == <<variant, apiKey, ppc, event, cleanedParams, retries, response,
               fetches, attempts, waits, result>>
relayVars == <<upstream, pos, buffer, sink, opened, ended, timer>>
vars == <<connectionPromise, cachedDb, cachedClient, fireworksApiKey, mongoDbUri,
          attempt, callSt, callP, callH, joined,
          pc, request, query, messages, usedFallback, queryResult, issued,
          outcome, resp, written,
          variant, apiKey, ppc, event, cleanedParams, retries, response,
          fetches, attempts, waits, result,
          upstream, pos, buffer, sink, opened, ended, timer>>

\* ------------------------------------------------------------------- text
\* A text is a sequence of atoms; an atom is a character or a literal chunk.
Min(a, b) == IF a < b THEN a ELSE b

\* String.prototype.substring(0, n)
Substring(s, n) == SubSeq(s, 1, Min(n, Len(s)))

\* String.prototype.includes
Includes(s, t) ==
    \E i \in 0..(Len(s) - Len(t)) : SubSeq(s, i + 1, i + Len(t)) = t

\* A text of n characters, no two neighbours equal.
Chars(n) == [i \in 1..n |-> <<"a", "b", "c">>[(i % 3) + 1]]

NoResp == [status |-> 0]

\* No request received yet; no chat turns built yet.
NoRequest == [method |-> "", body |-> [kind |-> "undefined", query |-> <<>>]]
NoMessages == <<>>

\* The proxy function before it is invoked: no event, nothing sent or returned.
NoEvent ==
    [httpMethod |-> "",
     body |-> [kind |-> "none", max_tokens |-> [t |-> "undefined", v |-> 0], stream |-> FALSE]]
NoParams == [model |-> "", max_tokens |-> 0, stream |-> FALSE]
NoResponse == [status |-> 0, body |-> <<>>]
NoResult == [statusCode |-> 0]
ProxyIdle ==
    /\ ppc = "idle"
    /\ event = NoEvent
    /\ cleanedParams = NoParams
    /\ retries = 0
    /\ response = NoResponse
    /\ fetches = 0
    /\ attempts = <<>>
    /\ waits = <<>>
    /\ result = NoResult

RelayIdle ==
    /\ upstream = <<>>
    /\ pos = 0
    /\ buffer = <<>>
    /\ sink = <<>>
    /\ opened = FALSE
    /\ ended = 0
    /\ timer = FALSE

\* The stages of a RAG request; each ends "ok", "failed" or "timeout".
Stages == {"connect", "embedding", "search", "llm"}

\* ------------------------------------------------- connection cache (part_000)
Settled(a) == attempt[a] # "pending"

\* The attempt the next new MongoClient(...) / client.connect() gets.
FreshAttempt == Cardinality({a \in Attempts : attempt[a] # "unused"}) + 1

\* The number of client.connect() calls started so far.
ConnectsStarted == Cardinality({a \in Attempts : attempt[a] # "unused"})
InFlight == {a \in Attempts : attempt[a] = "pending"}

\* Lines 23-61 of connectToDatabase, entered with the cache's handle/client being
\* db/cl: return the cached handle, or create the connection promise (whose
\* executor runs synchronously up to `await client.connect()`) and return it.
ConnectTail(c, db, cl) ==
    IF db # Null
    THEN /\ callSt' = [callSt EXCEPT ![c] = "returned"]
         /\ callH' = [callH EXCEPT ![c] = db]
         /\ callP' = callP
         /\ connectionPromise' = Null
         /\ attempt' = attempt
         /\ cachedDb' = db
         /\ cachedClient' = cl
    ELSE /\ FreshAttempt \in Attempts
         /\ attempt' = [attempt EXCEPT ![FreshAttempt] = "pending"]
         /\ connectionPromise' = FreshAttempt
         /\ callSt' = [callSt EXCEPT ![c] = "adopt"]
         /\ callP' = [callP EXCEPT ![c] = FreshAttempt]
         /\ callH' = callH
         /\ cachedDb' = db
         /\ cachedClient' = cl

\* Mutant: no `if (connectionPromise)` guard, every call goes on to lines 23-61.
connectToDatabaseNoGuard(c) ==
    /\ ConnectTail(c, cachedDb, cachedClient)
    /\ joined' = [joined EXCEPT ![c] =
                    IF cachedDb # Null THEN Null ELSE FreshAttempt]

\* connectToDatabase(uri), from the call to its first suspension or its return.
connectToDatabase(c) ==
    IF connectionPromise # Null
    THEN \* line 14: await connectionPromise
         /\ callSt' = [callSt EXCEPT ![c] = "await"]
         /\ callP' = [callP EXCEPT ![c] = connectionPromise]
         /\ joined' = [joined EXCEPT ![c] =
                         IF Settled(connectionPromise) THEN Null ELSE connectionPromise]
         /\ UNCHANGED <<callH, cacheVars>>
    ELSE /\ ConnectTail(c, cachedDb, cachedClient)
         /\ joined' = [joined EXCEPT ![c] =
                         IF cachedDb # Null THEN Null ELSE FreshAttempt]

\* Mutant: the catch of lines 15-20 returns instead of falling through.
AwaitRejectedNoRetry(c) ==
    /\ callSt' = [callSt EXCEPT ![c] = "returned"]
    /\ callH' = [callH EXCEPT ![c] = Null]
    /\ connectionPromise' = Null
    /\ cachedDb' = Null
    /\ cachedClient' = Null
    /\ UNCHANGED <<callP, attempt>>

\* Lines 15-20, then 23-61: the awaited promise rejected; reset the cache and
\* go on as a call that found it empty.
AwaitRejected(c) ==
    ConnectTail(c, Null, Null)

\* The continuation of `await connectionPromise` (line 14), a microtask.
AwaitResume(c) ==
    /\ callSt[c] = "await"
    /\ Settled(callP[c])
    /\ IF attempt[callP[c]] = "resolved"
       THEN /\ callSt' = [callSt EXCEPT ![c] = "returned"]
            /\ callH' = [callH EXCEPT ![c] = callP[c]]
            /\ UNCHANGED <<callP, cacheVars>>
       ELSE AwaitRejected(c)
    /\ UNCHANGED <<joined, envVars, proxyVars, relayVars, reqVars>>

\* What the promise returned by the call has settled to, if it has.
CallResult(c) ==
    CASE callSt[c] = "returned" -> [kind |-> "resolved", val |-> callH[c]]
      [] callSt[c] = "adopt" /\ attempt[callP[c]] = "resolved" ->
             [kind |-> "resolved", val |-> callP[c]]
      [] callSt[c] = "adopt" /\ attempt[callP[c]] = "rejected" ->
             [kind |-> "rejected", val |-> callP[c]]
      [] OTHER -> [kind |-> "pending", val |-> Null]

\* No continuation is runnable: the microtask queue is empty, so the event
\* loop may take a timer or an I/O completion.
Quiescent ==
    /\ \A c \in Callers : ~(callSt[c] = "await" /\ Settled(callP[c]))
    /\ \A r \in Req : ~(pc[r] = "awaitConn" /\ CallResult(r).kind # "pending")

\* Lines 43-52: client.connect() of attempt a succeeded.
ConnectOk(a) ==
    /\ attempt[a] = "pending"
    /\ Quiescent
    /\ attempt' = [attempt EXCEPT ![a] = "resolved"]
    /\ cachedClient' = a
    /\ cachedDb' = a
    /\ UNCHANGED <<connectionPromise, callVars, envVars, proxyVars, relayVars, reqVars>>

\* Lines 53-58: client.connect() of attempt a failed.
ConnectFail(a) ==
    /\ attempt[a] = "pending"
    /\ Quiescent
    /\ attempt' = [attempt EXCEPT ![a] = "rejected"]
    /\ connectionPromise' = Null
    /\ UNCHANGED <<cachedDb, cachedClient, callVars, envVars, proxyVars, relayVars, reqVars>>

\* acquire(uri): one more caller invokes connectToDatabase; each arrival is a
\* task of its own.
Acquire(c) ==
    /\ callSt[c] = "none"
    /\ Quiescent
    /\ connectToDatabase(c)
    /\ UNCHANGED <<envVars, proxyVars, relayVars, reqVars>>

\* The RAG module freshly loaded, no request received.
RagIdle ==
    /\ connectionPromise = Null
    /\ cachedDb = Null
    /\ cachedClient = Null
    /\ fireworksApiKey \in BOOLEAN
    /\ mongoDbUri \in BOOLEAN
    /\ attempt = [a \in Attempts |-> "unused"]
    /\ callSt = [c \in Callers |-> "none"]
    /\ callP = [c \in Callers |-> Null]
    /\ callH = [c \in Callers |-> Null]
    /\ joined = [c \in Callers |-> Null]
    /\ pc = [r \in Req |-> "idle"]
    /\ request = [r \in Req |-> NoRequest]
    /\ query = [r \in Req |-> <<>>]
    /\ messages = [r \in Req |-> NoMessages]
    /\ usedFallback = [r \in Req |-> FALSE]
    /\ queryResult = [r \in Req |-> <<>>]
    /\ issued = [r \in Req |-> <<>>]
    /\ outcome = [r \in Req |-> [s \in Stages |-> "none"]]
    /\ resp = [r \in Req |-> NoResp]
    /\ written = [r \in Req |-> 0]

Init ==
    /\ RagIdle
    /\ variant = "first"
    /\ apiKey = TRUE
    /\ ProxyIdle
    /\ RelayIdle

\* The cache alone, under NumCalls concurrent callers.
InitCache == Init /\ fireworksApiKey /\ mongoDbUri

NextCache ==
    \/ \E c \in Callers : Acquire(c)
    \/ \E c \in Callers : AwaitResume(c)
    \/ \E a \in Attempts : ConnectOk(a)
    \/ \E a \in Attempts : ConnectFail(a)

SpecCache == InitCache /\ [][NextCache]_vars

\* ------------------------------------------------------- documents and texts
\* A field of a stored document: a text, absent, or a value that is no string
\* (the store is schemaless; a number is what is modelled).
Text(v) == [t |-> "text", v |-> v]
Absent == [t |-> "none", v |-> <<>>]
Number == [t |-> "num", v |-> <<"42">>]

\* JavaScript truthiness of a field (the number is not zero).
Truthy(f) == f.t = "num" \/ (f.t = "text" /\ f.v # <<>>)

\* The documents of the store, by id.
DocIds == 1..8
Documents ==
    [id \in DocIds |->
       CASE id = 1 -> [instruction |-> Text(<<"capital of France">>),
                       context |-> Text(<<"geography">>),
                       response |-> Text(<<"P", "a", "r", "i", "s">>),
                       score |-> 91]
         [] id = 2 -> [instruction |-> Text(<<"long">>),
                       context |-> Text(<<"essay">>),
                       response |-> Text(Chars(TruncLen + 1)),
                       score |-> 97]
         [] id = 3 -> [instruction |-> Absent, context |-> Absent,
                       response |-> Absent, score |-> 0]
         [] id = 4 -> [instruction |-> Text(<<"count">>),
                       context |-> Absent,
                       response |-> Number,
                       score |-> 93]
         [] id = 5 -> [instruction |-> Text(<<"exact">>),
                       context |-> Text(<<"note">>),
                       response |-> Text(Chars(TruncLen)),
                       score |-> 95]
         [] id = 6 -> [instruction |-> Text(<<"capital of Italy">>),
                       context |-> Text(<<"geography">>),
                       response |-> Text(<<"R", "o", "m", "e">>),
                       score |-> 80]
         [] id = 7 -> [instruction |-> Text(<<"capital of Spain">>),
                       context |-> Text(<<"geography">>),
                       response |-> Text(<<"M", "a", "d", "r", "i", "d">>),
                       score |-> 70]
         [] OTHER  -> [instruction |-> Text(<<"capital of Peru">>),
                       context |-> Text(<<"geography">>),
                       response |-> Text(<<"L", "i", "m", "a">>),
                       score |-> 60]]
Doc(id) == Documents[id]

\* What documentsCollection.aggregate([...]).toArray() may resolve to: document
\* ids in the store's order (descending score).  The pipeline asks for k
\* neighbours; nothing in the handler looks at how many come back, so one
\* result is a document longer than k.
SearchResults ==
    {<<>>, <<4, 1>>, <<1, 6, 7, 8, 3>>, <<2, 5, 1, 6, 7, 3>>}

\* The request bodies with a usable query, and the other inputs of a request.
Queries == {<<"capital", "of", "France">>}
Methods == {"POST", "OPTIONS", "GET"}
Bodies ==
    {[kind |-> "badjson", query |-> <<>>], [kind |-> "undefined", query |-> <<>>]}
      \cup {[kind |-> "json", query |-> q] : q \in Queries \cup {<<>>}}

\* The requests: a POST carries any of the bodies, the other methods none.
Requests ==
    {rq \in [method : Methods, body : Bodies] :
        rq.method # "POST" => rq.body.kind = "undefined"}
Answers == {<<"Paris is the capital of France.">>}

\* ----------------------------------------------- resilient handler (part_000)
\* errorResponse(res, status, message, details)
errorResponse(status, message, details) ==
    IF details # ""
    THEN [status |-> status, body |-> [error |-> message, details |-> details]]
    ELSE [status |-> status, body |-> [error |-> message]]

\* Mutant: the template does not quote the query.
generateFallbackResponseNoQuery(q) ==
    [answer |-> <<"I'm unable to search the knowledge base at the moment due to a database connection issue. I'll answer based on my general knowledge instead.">>,
     sources |-> <<>>,
     fallback |-> TRUE]

\* generateFallbackResponse(query), lines 80-86.
generateFallbackResponse(q) ==
    [answer |-> <<"I'm unable to search the knowledge base at the moment due to a database connection issue. I'll answer based on my general knowledge instead.\n\nYour question was: \"">>
                  \o q \o <<"\"">>,
     sources |-> <<>>,
     fallback |-> TRUE]

\* Mutant: the ellipsis is added from 200 characters on.
TruncateFromLimit(s) ==
    Substring(s, TruncLen) \o (IF Len(s) >= TruncLen THEN <<".", ".", ".">> ELSE <<>>)

\* doc.response.substring(0, 200) + (doc.response.length > 200 ? '...' : '')
Truncate(s) ==
    Substring(s, TruncLen) \o (IF Len(s) > TruncLen THEN <<".", ".", ".">> ELSE <<>>)

\* One element of queryResult.map(doc => ({...})), lines 346-353.
Source(doc) ==
    [instruction |-> IF Truthy(doc.instruction) THEN doc.instruction.v ELSE <<>>,
     response |-> IF Truthy(doc.response) THEN Truncate(doc.response.v) ELSE <<>>,
     context |-> IF Truthy(doc.context) THEN doc.context.v ELSE <<>>,
     score |-> doc.score]

\* queryResult.map(...) throws a TypeError when a truthy response is no string
\* (it has no substring method).
SourcesThrow(qr) == \E i \in DOMAIN qr : Doc(qr[i]).response.t = "num"

\* Mutant: the map is taken over the first k documents only.
SourcesFirstK(qr) == [i \in 1..Min(Len(qr), TopK) |-> Source(Doc(qr[i]))]

Sources(qr) == [i \in DOMAIN qr |-> Source(Doc(qr[i]))]

\* Lines 381-384: the outer catch.
InternalError(msg) == errorResponse(500, "Internal Server Error", msg)

\* Mutant: the catch of the LLM step answers without an error field.
LLMCatchNoError(q, qr, msg) ==
    IF SourcesThrow(qr)
    THEN InternalError("TypeError")
    ELSE [status |-> 200,
          body |-> [answer |-> generateFallbackResponse(q).answer,
                    sources |-> Sources(qr),
                    fallback |-> TRUE]]

\* Lines 357-379: the catch of the LLM step.
LLMCatch(q, qr, msg) ==
    IF SourcesThrow(qr)
    THEN InternalError("TypeError")
    ELSE [status |-> 200,
          body |-> [answer |-> generateFallbackResponse(q).answer,
                    sources |-> Sources(qr),
                    fallback |-> TRUE,
                    error |-> <<"LLM API error: ", msg>>]]

\* Mutant: the success response reports fallback: false whatever happened.
LLMSuccessFlagOff(q, qr, fb, answer) ==
    IF SourcesThrow(qr)
    THEN LLMCatch(q, qr, "TypeError")
    ELSE [status |-> 200,
          body |-> [answer |-> answer, sources |-> Sources(qr), fallback |-> FALSE]]

\* Lines 340-355: the response of a successful run.
LLMSuccess(q, qr, fb, answer) ==
    IF SourcesThrow(qr)
    THEN LLMCatch(q, qr, "TypeError")
    ELSE [status |-> 200,
          body |-> [answer |-> answer, sources |-> Sources(qr), fallback |-> fb]]

\* Array.prototype.join
RECURSIVE Join(_, _)
Join(blocks, sep) ==
    IF blocks = <<>> THEN <<>>
    ELSE IF Len(blocks) = 1 THEN blocks[1]
    ELSE blocks[1] \o sep \o Join(Tail(blocks), sep)

\* `${f || dflt}` in a template literal.
OrElse(f, dflt) == IF Truthy(f) THEN f.v ELSE dflt

\* Lines 277-278: the three-line block of one document.
ContextBlock(doc) ==
    <<"Question: ">> \o OrElse(doc.instruction, <<"Unknown">>)
       \o <<"\nContext: ">> \o OrElse(doc.context, <<>>)
       \o <<"\nAnswer: ">> \o OrElse(doc.response, <<"Unknown">>)

\* Mutant: the blocks are joined last document first.
ContextReversed(qr) ==
    Join([i \in DOMAIN qr |-> ContextBlock(Doc(qr[Len(qr) + 1 - i]))], <<"\n\n">>)

\* Lines 275-283: the context string.
Context(qr) == Join([i \in DOMAIN qr |-> ContextBlock(Doc(qr[i]))], <<"\n\n">>)

\* Lines 286-297: the two chat turns.
Messages(q, qr, fb) ==
    << [role |-> "system",
        content |->
          <<"You are a helpful assistant. ">>
            \o (IF fb
                THEN <<"The knowledge base search is currently unavailable, so please answer based on your general knowledge.">>
                ELSE <<"Use the following retrieved information to answer the user's question. If the retrieved information isn't relevant or doesn't contain the answer, rely on your general knowledge.">>)
            \o <<"\n\n">>
            \o (IF fb THEN <<>> ELSE <<"Retrieved Information:\n">> \o Context(qr))],
       [role |-> "user", content |-> q] >>

\* Lines 209-225: the catch of the embedding step.
EmbeddingCatch(q, msg) ==
    [status |-> 200,
     body |-> [answer |-> generateFallbackResponse(q).answer,
               sources |-> generateFallbackResponse(q).sources,
               fallback |-> TRUE,
               error |-> <<"Embedding failed: ", msg>>]]

\* Lines 92-138: what the handler answers before any upstream call, or NoResp
\* when the request goes on to the pipeline.
Validate(method, body) ==
    CASE method = "OPTIONS" -> [status |-> 204]
      [] method # "POST" -> errorResponse(405, "Method Not Allowed", "")
      [] ~fireworksApiKey ->
             errorResponse(500, "Configuration error: Missing Fireworks API key", "")
      [] ~mongoDbUri ->
             errorResponse(500, "Configuration error: Missing MongoDB URI", "")
      [] body.kind = "badjson" ->
             errorResponse(400, "Invalid JSON in request body", "SyntaxError")
      [] body.kind = "undefined" -> InternalError("TypeError")
      [] body.query = <<>> -> errorResponse(400, "Missing query parameter", "")
      [] OTHER -> NoResp

\* The response is written and the invocation ends (its chat turns go with it).
Reply(r, rsp) ==
    /\ resp' = [resp EXCEPT ![r] = rsp]
    /\ written' = [written EXCEPT ![r] = @ + 1]
    /\ pc' = [pc EXCEPT ![r] = "done"]
    /\ messages' = [messages EXCEPT ![r] = NoMessages]

Ended(r, stage, how) ==
    outcome' = [outcome EXCEPT ![r][stage] = how]

Goto(r, label, call) ==
    /\ pc' = [pc EXCEPT ![r] = label]
    /\ issued' = [issued EXCEPT ![r] = Append(@, call)]

\* Lines 88-155: a request arrives (requests are numbered in their order of
\* arrival); the handler runs up to `await Promise.race(...)` of line 165.
HandleRequest(r) ==
    /\ pc[r] = "idle"
    /\ IF r = 1 THEN TRUE ELSE pc[r - 1] # "idle"
    /\ Quiescent
    /\ \E rq \in Requests :
          /\ request' = [request EXCEPT ![r] = rq]
          /\ IF Validate(rq.method, rq.body) # NoResp
             THEN /\ Reply(r, Validate(rq.method, rq.body))
                  /\ UNCHANGED <<query, usedFallback, queryResult, issued,
                                 cacheVars, callVars>>
             ELSE /\ query' = [query EXCEPT ![r] = rq.body.query]
                  /\ connectToDatabase(r)
                  /\ Goto(r, "awaitConn", "connectToDatabase")
                  /\ UNCHANGED <<messages, usedFallback, queryResult, resp, written>>
    /\ UNCHANGED outcome
    /\ UNCHANGED <<envVars, proxyVars, relayVars>>

\* Lines 165-171: the connection won the race; documentsCollection.stats().
ConnectionReady(r) ==
    /\ pc[r] = "awaitConn"
    /\ CallResult(r).kind = "resolved"
    /\ Goto(r, "awaitStats", "stats")
    /\ Ended(r, "connect", "ok")
    /\ UNCHANGED <<request, query, messages, usedFallback, queryResult, resp, written, cacheVars, callVars, envVars, proxyVars, relayVars>>

\* Lines 180-189: the connection promise rejected; go on to the embedding call.
ConnectionFailed(r) ==
    /\ pc[r] = "awaitConn"
    /\ CallResult(r).kind = "rejected"
    /\ usedFallback' = [usedFallback EXCEPT ![r] = TRUE]
    /\ Goto(r, "awaitEmbed", "embedding")
    /\ Ended(r, "connect", "failed")
    /\ UNCHANGED <<request, query, messages, queryResult, resp, written, cacheVars, callVars, envVars, proxyVars, relayVars>>

\* Lines 158-162, 180-189: the 5 second timer fired first; the connectToDatabase
\* call goes on in the background.
ConnectionTimeout(r) ==
    /\ pc[r] = "awaitConn"
    /\ Quiescent
    /\ usedFallback' = [usedFallback EXCEPT ![r] = TRUE]
    /\ Goto(r, "awaitEmbed", "embedding")
    /\ Ended(r, "connect", "timeout")
    /\ UNCHANGED <<request, query, messages, queryResult, resp, written, cacheVars, callVars, envVars, proxyVars, relayVars>>

\* Lines 171-189: stats() settled (either way it is only logged).
StatsDone(r) ==
    /\ pc[r] = "awaitStats"
    /\ Quiescent
    /\ Goto(r, "awaitEmbed", "embedding")
    /\ UNCHANGED outcome
    /\ UNCHANGED <<request, query, messages, usedFallback, queryResult, resp, written, cacheVars, callVars, envVars, proxyVars, relayVars>>

EmbeddingOutcomes == {"ok", "status", "network", "malformed"}

\* Mutant: the vector search is issued whether or not the connection was acquired.
EmbeddingDoneAlwaysSearch(r) ==
    /\ pc[r] = "awaitEmbed"
    /\ Quiescent
    /\ \E out \in EmbeddingOutcomes :
          IF out # "ok"
          THEN /\ Reply(r, EmbeddingCatch(query[r], out))
               /\ UNCHANGED issued
               /\ Ended(r, "embedding", "failed")
          ELSE /\ Goto(r, "awaitSearch", "search")
               /\ UNCHANGED messages
               /\ UNCHANGED <<resp, written>>
               /\ Ended(r, "embedding", "ok")
    /\ UNCHANGED <<request, query, usedFallback, queryResult, cacheVars, callVars, envVars, proxyVars, relayVars>>

\* Mutant: the catch of the embedding step answers and does not return, so the
\* handler goes on to the LLM step.
EmbeddingDoneNoReturn(r) ==
    /\ pc[r] = "awaitEmbed"
    /\ Quiescent
    /\ \E out \in EmbeddingOutcomes :
          IF out # "ok"
          THEN /\ resp' = [resp EXCEPT ![r] = EmbeddingCatch(query[r], out)]
               /\ written' = [written EXCEPT ![r] = @ + 1]
               /\ Goto(r, "awaitLLM", "llm")
               /\ UNCHANGED messages
               /\ Ended(r, "embedding", "failed")
          ELSE /\ IF usedFallback[r]
                  THEN /\ Goto(r, "awaitLLM", "llm")
                       /\ messages' = [messages EXCEPT
                             ![r] = Messages(query[r], queryResult[r], TRUE)]
                  ELSE /\ Goto(r, "awaitSearch", "search")
                       /\ UNCHANGED messages
               /\ UNCHANGED <<resp, written>>
               /\ Ended(r, "embedding", "ok")
    /\ UNCHANGED <<request, query, usedFallback, queryResult, cacheVars, callVars, envVars, proxyVars, relayVars>>

\* Lines 189-225, then 228-263 or 275-329: the embedding call settled.
EmbeddingDone(r) ==
    /\ pc[r] = "awaitEmbed"
    /\ Quiescent
    /\ \E out \in EmbeddingOutcomes :
          IF out # "ok"
          THEN /\ Reply(r, EmbeddingCatch(query[r], out))
               /\ UNCHANGED issued
               /\ Ended(r, "embedding", "failed")
          ELSE /\ IF usedFallback[r]
                  THEN /\ Goto(r, "awaitLLM", "llm")
                       /\ messages' = [messages EXCEPT
                             ![r] = Messages(query[r], queryResult[r], TRUE)]
                  ELSE /\ Goto(r, "awaitSearch", "search")
                       /\ UNCHANGED messages
               /\ UNCHANGED <<resp, written>>
               /\ Ended(r, "embedding", "ok")
    /\ UNCHANGED <<request, query, usedFallback, queryResult, cacheVars, callVars, envVars, proxyVars, relayVars>>

SearchFailures == {"error", "timeout"}

\* Mutant: a failed or timed-out search leaves usedFallback as it was.
SearchDoneFlagKept(r) ==
    /\ pc[r] = "awaitSearch"
    /\ Quiescent
    /\ \/ \E qr \in SearchResults :
             /\ queryResult' = [queryResult EXCEPT ![r] = qr]
             /\ UNCHANGED usedFallback
             /\ Ended(r, "search", "ok")
       \/ \E out \in SearchFailures :
             /\ queryResult' = [queryResult EXCEPT ![r] = <<>>]
             /\ UNCHANGED usedFallback
             /\ Ended(r, "search", IF out = "timeout" THEN "timeout" ELSE "failed")
    /\ messages' = [messages EXCEPT
          ![r] = Messages(query[r], queryResult'[r], usedFallback'[r])]
    /\ Goto(r, "awaitLLM", "llm")
    /\ UNCHANGED <<request, query, resp, written, cacheVars, callVars, envVars, proxyVars, relayVars>>

\* Lines 263-329: the race of the vector search against its 4 second timer
\* settled; the context is built and the LLM call issued.
SearchDone(r) ==
    /\ pc[r] = "awaitSearch"
    /\ Quiescent
    /\ \/ \E qr \in SearchResults :
             /\ queryResult' = [queryResult EXCEPT ![r] = qr]
             /\ UNCHANGED usedFallback
             /\ Ended(r, "search", "ok")
       \/ \E out \in SearchFailures :
             /\ queryResult' = [queryResult EXCEPT ![r] = <<>>]
             /\ usedFallback' = [usedFallback EXCEPT ![r] = TRUE]
             /\ Ended(r, "search", IF out = "timeout" THEN "timeout" ELSE "failed")
    /\ messages' = [messages EXCEPT
          ![r] = Messages(query[r], queryResult'[r], usedFallback'[r])]
    /\ Goto(r, "awaitLLM", "llm")
    /\ UNCHANGED <<request, query, resp, written, cacheVars, callVars, envVars, proxyVars, relayVars>>

LLMOutcomes == {"ok", "status", "network", "timeout"}

\* Lines 329-336: the race of the LLM fetch against its 15 second timer settled.
LLMResponse(r) ==
    /\ pc[r] = "awaitLLM"
    /\ Quiescent
    /\ \E out \in LLMOutcomes :
          CASE out = "ok" -> /\ pc' = [pc EXCEPT ![r] = "awaitLLMJson"]
                             /\ UNCHANGED <<resp, written, outcome, messages>>
            [] out = "status" -> /\ pc' = [pc EXCEPT ![r] = "awaitLLMText"]
                                 /\ UNCHANGED <<resp, written, outcome, messages>>
            [] OTHER -> /\ Reply(r, LLMCatch(query[r], queryResult[r], out))
                        /\ Ended(r, "llm", IF out = "timeout" THEN "timeout" ELSE "failed")
    /\ UNCHANGED <<request, query, usedFallback, queryResult, issued, cacheVars, callVars, envVars, proxyVars, relayVars>>

\* Lines 331-334: the error body of a non-success LLM response was read (or the
\* read failed): either way the step throws into its catch.
LLMText(r) ==
    /\ pc[r] = "awaitLLMText"
    /\ Quiescent
    /\ Reply(r, LLMCatch(query[r], queryResult[r], "status"))
    /\ Ended(r, "llm", "failed")
    /\ UNCHANGED <<request, query, usedFallback, queryResult, issued, cacheVars, callVars, envVars, proxyVars, relayVars>>

\* Lines 336-355: the body of a successful LLM response was read.
LLMJson(r) ==
    /\ pc[r] = "awaitLLMJson"
    /\ Quiescent
    /\ \/ /\ \E answer \in Answers :
                Reply(r, LLMSuccess(query[r], queryResult[r], usedFallback[r], answer))
          /\ Ended(r, "llm", "ok")
       \/ /\ Reply(r, LLMCatch(query[r], queryResult[r], "malformed"))
          /\ Ended(r, "llm", "failed")
    /\ UNCHANGED <<request, query, usedFallback, queryResult, issued, cacheVars, callVars, envVars, proxyVars, relayVars>>

Next ==
    \/ \E r \in Req : HandleRequest(r)
    \/ \E r \in Req : ConnectionReady(r)
    \/ \E r \in Req : ConnectionFailed(r)
    \/ \E r \in Req : ConnectionTimeout(r)
    \/ \E r \in Req : StatsDone(r)
    \/ \E r \in Req : EmbeddingDone(r)
    \/ \E r \in Req : SearchDone(r)
    \/ \E r \in Req : LLMResponse(r)
    \/ \E r \in Req : LLMText(r)
    \/ \E r \in Req : LLMJson(r)
    \/ \E c \in Callers : AwaitResume(c)
    \/ \E a \in Attempts : ConnectOk(a)
    \/ \E a \in Attempts : ConnectFail(a)

\* The resilient RAG handler under NumReq requests sharing the cache.
Spec == Init /\ [][Next]_vars

\* The timers of a request: setTimeout callbacks of lines 158-162, 256-260 and
\* 322-326.  A timer that is armed and not yet beaten by its rival fires.
TimerFires(r) ==
    \/ ConnectionTimeout(r)
    \/ SearchDone(r) /\ outcome'[r]["search"] = "timeout"
    \/ LLMResponse(r) /\ outcome'[r]["llm"] = "timeout"

\* The continuations of settled promises: the event loop runs them.
ContinuationRuns(r) == ConnectionReady(r) \/ ConnectionFailed(r)

\* The handler under an event loop that runs every runnable continuation and
\* fires every armed timer, while the upstream collaborators (store, embedding
\* and generation endpoints) answer or not as they please.
SpecLive ==
    /\ Spec
    /\ \A r \in Req : WF_vars(TimerFires(r)) /\ WF_vars(ContinuationRuns(r))
    /\ \A c \in Callers : WF_vars(AwaitResume(c))

\* -------------------------------------------------- basic handler (api/rag.js)
\* In SpecBasic the variables stand for the state of api/rag.js: cachedDb is its
\* module-level cache (it has no connectionPromise and no cachedClient), and
\* the request variables are the locals of its handler.

\* rag.js lines 8-18: connectToDatabase(uri) up to `await client.connect()`.
connectToDatabaseBasic(c) ==
    /\ IF cachedDb # Null
       THEN /\ callSt' = [callSt EXCEPT ![c] = "returned"]
            /\ callH' = [callH EXCEPT ![c] = cachedDb]
            /\ UNCHANGED <<callP, attempt, joined>>
       ELSE /\ FreshAttempt \in Attempts
            /\ attempt' = [attempt EXCEPT ![FreshAttempt] = "pending"]
            /\ callSt' = [callSt EXCEPT ![c] = "adopt"]
            /\ callP' = [callP EXCEPT ![c] = FreshAttempt]
            /\ joined' = [joined EXCEPT ![c] = FreshAttempt]
            /\ callH' = callH
    /\ UNCHANGED <<connectionPromise, cachedDb, cachedClient>>

\* rag.js lines 18-22: client.connect() of attempt a succeeded.
BasicConnectOk(a) ==
    /\ attempt[a] = "pending"
    /\ Quiescent
    /\ attempt' = [attempt EXCEPT ![a] = "resolved"]
    /\ cachedDb' = a
    /\ UNCHANGED <<connectionPromise, cachedClient, callVars, envVars, proxyVars, relayVars, reqVars>>

\* rag.js line 18: client.connect() of attempt a failed; the call rejects.
BasicConnectFail(a) ==
    /\ attempt[a] = "pending"
    /\ Quiescent
    /\ attempt' = [attempt EXCEPT ![a] = "rejected"]
    /\ UNCHANGED <<connectionPromise, cachedDb, cachedClient, callVars, envVars, proxyVars, relayVars, reqVars>>

\* rag.js lines 202-210: the only catch of the handler.
BasicInternalError(msg) ==
    [status |-> 500, body |-> [error |-> "Internal Server Error", message |-> msg]]

\* rag.js lines 29-88.
BasicValidate(method, body) ==
    CASE method = "OPTIONS" -> [status |-> 204]
      [] method # "POST" -> [status |-> 405, body |-> [error |-> "Method Not Allowed"]]
      [] ~fireworksApiKey \/ ~mongoDbUri ->
             [status |-> 500,
              body |-> [error |-> "Configuration error",
                        message |-> "Please set FIREWORKS_API_KEY and MONGODB_URI in your Vercel environment variables"]]
      [] body.kind = "badjson" ->
             [status |-> 400,
              body |-> [error |-> "Invalid JSON in request body", message |-> "SyntaxError"]]
      [] body.kind = "undefined" -> BasicInternalError("TypeError")
      [] body.query = <<>> -> [status |-> 400, body |-> [error |-> "Missing query parameter"]]
      [] OTHER -> NoResp

\* rag.js lines 194-199: doc.response.substring is called unguarded.
BasicSourcesThrow(qr) == \E i \in DOMAIN qr : Doc(qr[i]).response.t # "text"
BasicSources(qr) ==
    [i \in DOMAIN qr |->
        [instruction |-> Doc(qr[i]).instruction,
         response |-> Truncate(Doc(qr[i]).response.v),
         context |-> Doc(qr[i]).context,
         score |-> Doc(qr[i]).score]]

\* `${f}` in a template literal: an absent field prints as "undefined".
FieldText(f) == IF f.t = "none" THEN <<"undefined">> ELSE f.v

\* rag.js lines 145-150: the context string.
BasicContext(qr) ==
    Join([i \in DOMAIN qr |->
            <<"Question: ">> \o FieldText(Doc(qr[i]).instruction)
               \o <<"\nContext: ">> \o FieldText(Doc(qr[i]).context)
               \o <<"\nAnswer: ">> \o FieldText(Doc(qr[i]).response)],
         <<"\n\n">>)

\* rag.js lines 152-164: the two chat turns.
BasicMessages(q, qr) ==
    << [role |-> "system",
        content |->
          <<"You are a helpful assistant. Use the following context to answer the user's question, but don't mention that you're using a context. If the context doesn't contain relevant information, just answer based on your knowledge.\n        \nContext:\n">>
            \o BasicContext(qr)],
       [role |-> "user", content |-> q] >>

\* rag.js lines 188-200.
BasicSuccess(qr, answer) ==
    IF BasicSourcesThrow(qr)
    THEN BasicInternalError("TypeError")
    ELSE [status |-> 200, body |-> [answer |-> answer, sources |-> BasicSources(qr)]]

\* rag.js lines 25-96.
BasicHandleRequest(r) ==
    /\ pc[r] = "idle"
    /\ IF r = 1 THEN TRUE ELSE pc[r - 1] # "idle"
    /\ Quiescent
    /\ \E rq \in Requests :
          /\ request' = [request EXCEPT ![r] = rq]
          /\ IF BasicValidate(rq.method, rq.body) # NoResp
             THEN /\ Reply(r, BasicValidate(rq.method, rq.body))
                  /\ UNCHANGED <<query, usedFallback, queryResult, issued,
                                 cacheVars, callVars>>
             ELSE /\ query' = [query EXCEPT ![r] = rq.body.query]
                  /\ connectToDatabaseBasic(r)
                  /\ Goto(r, "awaitConn", "connectToDatabase")
                  /\ UNCHANGED <<messages, usedFallback, queryResult, resp, written>>
    /\ UNCHANGED outcome
    /\ UNCHANGED <<envVars, proxyVars, relayVars>>

\* rag.js lines 96-110: the connection is there; the embedding call is issued.
BasicConnected(r) ==
    /\ pc[r] = "awaitConn"
    /\ CallResult(r).kind = "resolved"
    /\ Goto(r, "awaitEmbed", "embedding")
    /\ Ended(r, "connect", "ok")
    /\ UNCHANGED <<request, query, messages, usedFallback, queryResult, resp, written, cacheVars, callVars, envVars, proxyVars, relayVars>>

\* rag.js lines 96, 202-210: connectToDatabase rejected.
BasicConnectError(r) ==
    /\ pc[r] = "awaitConn"
    /\ CallResult(r).kind = "rejected"
    /\ Reply(r, BasicInternalError("connect"))
    /\ Ended(r, "connect", "failed")
    /\ UNCHANGED <<request, query, usedFallback, queryResult, issued, cacheVars, callVars, envVars, proxyVars, relayVars>>

\* rag.js lines 100-141.
BasicEmbeddingDone(r) ==
    /\ pc[r] = "awaitEmbed"
    /\ Quiescent
    /\ \E out \in EmbeddingOutcomes :
          IF out # "ok"
          THEN /\ Reply(r, BasicInternalError(out))
               /\ UNCHANGED issued
               /\ Ended(r, "embedding", "failed")
          ELSE /\ Goto(r, "awaitSearch", "search")
               /\ UNCHANGED <<resp, written, messages>>
               /\ Ended(r, "embedding", "ok")
    /\ UNCHANGED <<request, query, usedFallback, queryResult, cacheVars, callVars, envVars, proxyVars, relayVars>>

\* rag.js lines 121-178: the search has no timer to race.
BasicSearchDone(r) ==
    /\ pc[r] = "awaitSearch"
    /\ Quiescent
    /\ \/ \E qr \in SearchResults :
             /\ queryResult' = [queryResult EXCEPT ![r] = qr]
             /\ messages' = [messages EXCEPT ![r] = BasicMessages(query[r], qr)]
             /\ Goto(r, "awaitLLM", "llm")
             /\ UNCHANGED <<resp, written>>
             /\ Ended(r, "search", "ok")
       \/ /\ Reply(r, BasicInternalError("search"))
          /\ UNCHANGED <<queryResult, issued>>
          /\ Ended(r, "search", "failed")
    /\ UNCHANGED <<request, query, usedFallback, cacheVars, callVars, envVars, proxyVars, relayVars>>

BasicLLMOutcomes == {"ok", "status", "network"}

\* rag.js lines 166-185: the LLM fetch has no timer to race.
BasicLLMResponse(r) ==
    /\ pc[r] = "awaitLLM"
    /\ Quiescent
    /\ \E out \in BasicLLMOutcomes :
          CASE out = "ok" -> /\ pc' = [pc EXCEPT ![r] = "awaitLLMJson"]
                             /\ UNCHANGED <<resp, written, outcome, messages>>
            [] out = "status" -> /\ pc' = [pc EXCEPT ![r] = "awaitLLMText"]
                                 /\ UNCHANGED <<resp, written, outcome, messages>>
            [] OTHER -> /\ Reply(r, BasicInternalError(out))
                        /\ Ended(r, "llm", IF out = "timeout" THEN "timeout" ELSE "failed")
    /\ UNCHANGED <<request, query, usedFallback, queryResult, issued, cacheVars, callVars, envVars, proxyVars, relayVars>>

\* rag.js lines 180-183.
BasicLLMText(r) ==
    /\ pc[r] = "awaitLLMText"
    /\ Quiescent
    /\ Reply(r, BasicInternalError("status"))
    /\ Ended(r, "llm", "failed")
    /\ UNCHANGED <<request, query, usedFallback, queryResult, issued, cacheVars, callVars, envVars, proxyVars, relayVars>>

\* rag.js lines 185-200.
BasicLLMJson(r) ==
    /\ pc[r] = "awaitLLMJson"
    /\ Quiescent
    /\ \/ /\ \E answer \in Answers :
                Reply(r, BasicSuccess(queryResult[r], answer))
          /\ Ended(r, "llm", "ok")
       \/ /\ Reply(r, BasicInternalError("malformed"))
          /\ Ended(r, "llm", "failed")
    /\ UNCHANGED <<request, query, usedFallback, queryResult, issued, cacheVars, callVars, envVars, proxyVars, relayVars>>

NextBasic ==
    \/ \E r \in Req : BasicHandleRequest(r)
    \/ \E r \in Req : BasicConnected(r)
    \/ \E r \in Req : BasicConnectError(r)
    \/ \E r \in Req : BasicEmbeddingDone(r)
    \/ \E r \in Req : BasicSearchDone(r)
    \/ \E r \in Req : BasicLLMResponse(r)
    \/ \E r \in Req : BasicLLMText(r)
    \/ \E r \in Req : BasicLLMJson(r)
    \/ \E a \in Attempts : BasicConnectOk(a)
    \/ \E a \in Attempts : BasicConnectFail(a)

\* The basic RAG handler under NumReq requests.
SpecBasic == Init /\ [][NextBasic]_vars

\* ------------------------- retrying proxy (netlify/functions/api-proxy.js)
\* The file holds two versions of the function ("first": lines 1-285,
\* "second": lines 287-530); src/unnamed/part_004 is a third ("debug").
Variants == {"first", "second", "debug"}

\* JavaScript values of requestBody.max_tokens.
Undefined == [t |-> "undefined", v |-> 0]
JsNull == [t |-> "null", v |-> 0]
Num(n) == [t |-> "num", v |-> n]
MaxTokensInputs == {Undefined, JsNull, Num(0), Num(-5), Num(100), Num(9000), Num(50000)}

Max(a, b) == IF a > b THEN a ELSE b

\* The handlers that forward one request without retrying: the edge proxy
\* (netlify/edge-functions/api-proxy.js), the fallback proxy (part_002:1-139),
\* the Fireworks proxy (part_002:141-336), the Perplexity proxy
\* (api/perplexity.js).
DirectHandlers == {"edge", "fallback", "fireworks", "perplexity"}

\* !x for a max_tokens value: undefined, null and 0 are falsy.
Falsy(mt) == mt.t # "num" \/ mt.v = 0

\* Lines 87-97 (first), 353-357 (second), part_004:105-108 (debug),
\* edge-functions/api-proxy.js:77-79, part_002:38-39 (fallback),
\* part_002:229-230 (Fireworks), streaming-proxy.js:39-40 (relay): the
\* max_tokens sent upstream.
NormalizeMaxTokens(v, mt) ==
    CASE v = "first" ->
            IF mt.t = "undefined" THEN 4096 ELSE Min(Max(1, mt.v), 8192)
      [] v = "second" -> IF Falsy(mt) THEN 8192 ELSE mt.v
      [] v = "debug" -> IF Falsy(mt) THEN 4096 ELSE mt.v
      [] v = "fireworks" -> Min(Max(1, IF Falsy(mt) THEN 4008 ELSE mt.v), 40000)
      [] OTHER -> Min(Max(1, IF Falsy(mt) THEN 4096 ELSE mt.v), 8192)

\* The events the function is invoked with; stream is requestBody.stream,
\* FALSE when it is false or absent.
ProxyBodies ==
    {[kind |-> "badjson", max_tokens |-> Undefined, stream |-> FALSE]}
      \cup {[kind |-> "json", max_tokens |-> mt, stream |-> st] :
              mt \in MaxTokensInputs, st \in BOOLEAN}
ProxyEvents ==
    {[httpMethod |-> m, body |-> [kind |-> "none", max_tokens |-> Undefined, stream |-> FALSE]] :
        m \in {"OPTIONS", "GET"}}
      \cup {[httpMethod |-> "POST", body |-> b] : b \in ProxyBodies}

\* Response bodies of the upstream API: a JSON document, the same document
\* with white space, an event stream (what it sends when asked with
\* stream: true), a document cut short by a closed connection; and error bodies.
JsonBody == <<"{", "\"choices\":[]", "}">>
SpacedJsonBody == <<"{", " ", "\"choices\":[]", " ", "}">>
StreamBody == <<"data: ", "{", "\"choices\":[]", "}", "\n\n">>
TruncatedBody == <<"{", "\"choices\":[">>
ErrorJsonBody == <<"{", "\"error\":{", "\"message\":", "upstream unavailable", "}", "}">>
TokenErrorBody ==
    <<"{", "\"error\":{", "\"message\":", "max_", "token", "s", " above the ", "limit", "}", "}">>
EmptyJsonBody == <<"{", "}">>
RawErrorBody == <<"Bad Gateway">>
ErrorBodies == {ErrorJsonBody, TokenErrorBody, EmptyJsonBody, RawErrorBody, <<>>}
UpstreamStatuses == {200, 400, 401, 429, 500, 502, 503}
UpstreamResponses(stream) ==
    {[status |-> 200, body |-> b] :
        b \in IF stream THEN {StreamBody}
              ELSE {JsonBody, SpacedJsonBody, TruncatedBody}}
      \cup {[status |-> st, body |-> b] :
              st \in UpstreamStatuses \ {200}, b \in ErrorBodies}

\* JSON.parse: a document is well formed when its braces are closed; white
\* space is not part of the value.
JSONParse(txt) ==
    IF /\ txt # <<>>
       /\ txt[1] = "{"
       /\ txt[Len(txt)] = "}"
       /\ Cardinality({i \in DOMAIN txt : txt[i] \in {"{", "\"error\":{"}})
            = Cardinality({i \in DOMAIN txt : txt[i] = "}"})
    THEN [ok |-> TRUE, value |-> SelectSeq(txt, LAMBDA a : a \notin {" ", "\n\n"})]
    ELSE [ok |-> FALSE, value |-> <<>>]

\* JSON.stringify: the document without white space.
JSONStringify(value) == value

\* The errors fetch() rejects with: a network failure, or the abort of the
\* per-attempt timer (lines 135-136).
NetworkError ==
    [name |-> "FetchError",
     message |-> <<"request to https://api.deepseek.com/v1/chat/completions failed">>]
AbortError == [name |-> "AbortError", message |-> <<"The user ", "abort", "ed a request.">>]
FetchErrors == {NetworkError, AbortError}

\* The errors response.json() rejects with.
InvalidJsonError ==
    [name |-> "FetchError", message |-> <<"invalid json response body">>]
BodyReadError ==
    [name |-> "FetchError",
     message |-> <<"Invalid response body while trying to fetch: ", "abort", "ed">>]

\* response.ok
Ok(status) == status >= 200 /\ status <= 299

\* Mutant: every server error is retried.
RetryableAny5xx(v, status) == status >= 500

\* Lines 160 (first), 414 (second), part_004:199 (debug).
Retryable(v, status) == status = 502 \/ (status = 503 /\ v = "first")

\* Mutant: the same wait after every failure.
BackoffTimeFixed(v, rt) == IF v = "second" THEN 3000 ELSE 2000

\* Lines 164/178 (first), 418/428 (second), part_004:203/213 (debug), with
\* retries already decremented.
BackoffTime(v, rt) == IF v = "second" THEN (3 - rt) * 3000 ELSE (4 - rt) * 2000

\* Lines 262 (first), 506 (second), part_004:296 (debug).
TimeoutMessage(v) ==
    IF v = "first"
    THEN <<"Request timed out. Try reducing the max_tokens value or simplifying your prompt.">>
    ELSE <<"Request timed out. Try reducing the max_tokens value or using a model that supports larger outputs.">>

\* Mutant: an abort is reported like any other error.
ProxyCatchPlain(v, err) ==
    [statusCode |-> 500,
     body |-> [error |-> IF err.message = <<>> THEN <<"Unknown error occurred">>
                         ELSE err.message,
               name |-> err.name]]

\* Lines 252-284: the outer catch.
ProxyCatch(v, err) ==
    [statusCode |-> 500,
     body |-> [error |->
                  IF err.name = "AbortError" \/ Includes(err.message, <<"abort">>)
                  THEN TimeoutMessage(v)
                  ELSE IF err.message = <<>> THEN <<"Unknown error occurred">>
                  ELSE err.message,
               name |-> err.name]]

\* Lines 197-203 (first), 445-451 (second), part_004:230-236 (debug): the
\* message of a parsed error document, parsedError.error?.message.
ParsedErrorMessage(v, val) ==
    LET at == {i \in DOMAIN val : val[i] = "\"message\":"}
        msg == IF at = {} THEN <<>>
               ELSE SubSeq(val, (CHOOSE i \in at : TRUE) + 1, Len(val) - 2)
    IN  IF msg = <<>> THEN <<"Unknown API error">>
        ELSE IF v = "first" /\ Includes(msg, <<"max_", "token", "s">>)
        THEN <<"Invalid max_tokens value. The DeepSeek API accepts values between 1 and 8192.">>
        ELSE IF v # "first" /\ Includes(msg, <<"token">>) /\ Includes(msg, <<"limit">>)
        THEN <<"Token limit exceeded. Try reducing the max_tokens value.">>
        ELSE msg

\* Lines 190-232: the response for an upstream status that is not a success.
UpstreamError(v, rs) ==
    [statusCode |-> rs.status,
     body |-> [error |-> <<"DeepSeek API error: ", ToString(rs.status)>>,
               message |->
                  IF rs.status = 401
                  THEN <<"Authentication failed. Please check your DeepSeek API key.">>
                  ELSE IF JSONParse(rs.body).ok
                  THEN ParsedErrorMessage(v, JSONParse(rs.body).value)
                  ELSE IF rs.body # <<>> THEN rs.body
                  ELSE <<"Error ", ToString(rs.status)>>]]

\* Lines 5-69: what the function returns before the retry loop, or NoResult
\* when the event goes on to it.
ProxyValidate(v, key, ev) ==
    CASE ev.httpMethod = "OPTIONS" -> [statusCode |-> 200, body |-> [text |-> <<>>]]
      [] ev.httpMethod # "POST" ->
             [statusCode |-> 405, body |-> [error |-> <<"Method Not Allowed">>]]
      [] ~key /\ v # "debug" ->
             [statusCode |-> 500, body |-> [error |-> <<"API key not configured">>]]
      [] ev.body.kind = "badjson" /\ v = "second" ->
             ProxyCatch(v, [name |-> "SyntaxError", message |-> <<"Unexpected token">>])
      [] ev.body.kind = "badjson" ->
             [statusCode |-> 400, body |-> [error |-> <<"Invalid JSON in request body">>]]
      [] OTHER -> NoResult

ProxyReturn(res) ==
    /\ result' = res
    /\ ppc' = "done"

\* Lines 184-251 up to the next await: the loop is left with response rs.
AfterLoop(rs) ==
    IF rs = NoResponse
    THEN ProxyReturn(ProxyCatch(variant,
            [name |-> "Error",
             message |-> <<"Failed to get response from DeepSeek API after multiple attempts">>]))
    ELSE /\ ppc' = IF Ok(rs.status) THEN "json" ELSE "text"
         /\ UNCHANGED result

\* Lines 5-152: the function is invoked and runs up to its first fetch().
ProxyHandle ==
    /\ ppc = "idle"
    /\ variant \in Variants
    /\ \E ev \in ProxyEvents :
          /\ event' = ev
          /\ IF ProxyValidate(variant, apiKey, ev) # NoResult
             THEN /\ ProxyReturn(ProxyValidate(variant, apiKey, ev))
                  /\ UNCHANGED <<cleanedParams, retries, fetches>>
             ELSE /\ cleanedParams' =
                        [model |-> "deepseek-chat",
                         max_tokens |-> NormalizeMaxTokens(variant, ev.body.max_tokens),
                         stream |-> ev.body.stream]
                  /\ retries' = 3
                  /\ fetches' = 1
                  /\ ppc' = "fetch"
                  /\ UNCHANGED result
    /\ UNCHANGED <<variant, apiKey, response, attempts, waits, ragVars, relayVars>>

\* Lines 152-170: fetch() resolved with a response.
ProxyFetchResponds ==
    /\ ppc = "fetch"
    /\ \E rs \in UpstreamResponses(cleanedParams.stream) :
          /\ response' = rs
          /\ attempts' = Append(attempts, [kind |-> "status", status |-> rs.status])
          /\ IF Retryable(variant, rs.status)
             THEN /\ retries' = retries - 1
                  /\ waits' = Append(waits, BackoffTime(variant, retries - 1))
                  /\ ppc' = "backoff"
                  /\ UNCHANGED result
             ELSE /\ AfterLoop(rs)
                  /\ UNCHANGED <<retries, waits>>
    /\ UNCHANGED <<variant, apiKey, event, cleanedParams, fetches, ragVars, relayVars>>

\* Mutant: an exception does not use up an attempt.
ProxyFetchThrowsFree ==
    /\ ppc = "fetch"
    /\ \E err \in FetchErrors :
          /\ attempts' = Append(attempts, [kind |-> err.name, status |-> 0])
          /\ waits' = Append(waits, BackoffTime(variant, retries - 1))
          /\ ppc' = "backoff"
          /\ UNCHANGED <<result, retries>>
    /\ UNCHANGED <<variant, apiKey, event, cleanedParams, response, fetches, ragVars, relayVars>>

\* Mutant: the exception of the last attempt leaves the loop instead of being
\* rethrown.
ProxyFetchThrowsQuiet ==
    /\ ppc = "fetch"
    /\ \E err \in FetchErrors :
          /\ attempts' = Append(attempts, [kind |-> err.name, status |-> 0])
          /\ retries' = retries - 1
          /\ IF retries - 1 = 0
             THEN /\ AfterLoop(response)
                  /\ UNCHANGED waits
             ELSE /\ waits' = Append(waits, BackoffTime(variant, retries - 1))
                  /\ ppc' = "backoff"
                  /\ UNCHANGED result
    /\ UNCHANGED <<variant, apiKey, event, cleanedParams, response, fetches, ragVars, relayVars>>

\* Lines 171-181: fetch() rejected (network failure, or abort by the timer).
ProxyFetchThrows ==
    /\ ppc = "fetch"
    /\ \E err \in FetchErrors :
          /\ attempts' = Append(attempts, [kind |-> err.name, status |-> 0])
          /\ retries' = retries - 1
          /\ IF retries - 1 = 0
             THEN /\ ProxyReturn(ProxyCatch(variant, err))
                  /\ UNCHANGED waits
             ELSE /\ waits' = Append(waits, BackoffTime(variant, retries - 1))
                  /\ ppc' = "backoff"
                  /\ UNCHANGED result
    /\ UNCHANGED <<variant, apiKey, event, cleanedParams, response, fetches, ragVars, relayVars>>

\* Lines 166/180, then 132-152 or 184-235: the backoff timer fired; back at the
\* loop head.
ProxyBackoffDone ==
    /\ ppc = "backoff"
    /\ IF retries > 0
       THEN /\ fetches' = fetches + 1
            /\ ppc' = "fetch"
            /\ UNCHANGED result
       ELSE /\ AfterLoop(response)
            /\ UNCHANGED fetches
    /\ UNCHANGED <<variant, apiKey, event, cleanedParams, retries, response,
                   attempts, waits, ragVars, relayVars>>

\* Lines 191-232: the body of an error response was read.
ProxyTextRead ==
    /\ ppc = "text"
    /\ ProxyReturn(UpstreamError(variant, response))
    /\ UNCHANGED <<variant, apiKey, event, cleanedParams, retries, response,
                   fetches, attempts, waits, ragVars, relayVars>>

\* Lines 235-251: response.json() settled.
ProxyJsonRead ==
    /\ ppc = "json"
    /\ ProxyReturn(
          IF JSONParse(response.body).ok
          THEN [statusCode |-> 200,
                body |-> [text |-> JSONStringify(JSONParse(response.body).value)]]
          ELSE ProxyCatch(variant, IF response.body = TruncatedBody
                                   THEN BodyReadError ELSE InvalidJsonError))
    /\ UNCHANGED <<variant, apiKey, event, cleanedParams, retries, response,
                   fetches, attempts, waits, ragVars, relayVars>>

InitProxy ==
    /\ RagIdle
    /\ fireworksApiKey
    /\ mongoDbUri
    /\ variant \in Variants
    /\ apiKey \in BOOLEAN
    /\ ProxyIdle
    /\ RelayIdle

NextProxy ==
    \/ ProxyHandle
    \/ ProxyFetchResponds
    \/ ProxyFetchThrows
    \/ ProxyBackoffDone
    \/ ProxyTextRead
    \/ ProxyJsonRead

\* One invocation of the retrying proxy, in each of its versions.
SpecProxy == InitProxy /\ [][NextProxy]_vars

\* ------------------------------------- proxies that forward a request once
\* The events of these handlers: those of the retrying proxy, and a POST whose
\* JSON body has no query (the Perplexity proxy asks for one).
DirectEvents ==
    ProxyEvents \cup
      {[httpMethod |-> "POST",
        body |-> [kind |-> "noquery", max_tokens |-> Undefined, stream |-> FALSE]]}

\* The error the timer of the call ends the fetch with: the edge proxy races
\* the fetch against a timer that rejects (edge-functions/api-proxy.js:114-116),
\* the others abort it (part_002:72-73, 249-253; perplexity.js:63-64).
TimeoutError(v) ==
    IF v = "edge" THEN [name |-> "Error", message |-> <<"Request timeout">>]
    ELSE AbortError

\* edge-functions/api-proxy.js:172-197, part_002:119-138, part_002:310-328,
\* perplexity.js:138-157: the response for an exception.
DirectCatch(v, err) ==
    IF \/ v = "edge" /\ err.message = <<"Request timeout">>
       \/ v # "edge" /\ err.name = "AbortError"
    THEN [statusCode |-> 504,
          body |-> [error |-> IF v = "fireworks" THEN <<"Gateway Timeout">>
                              ELSE <<"The request took too long to process.">>,
                    name |-> err.name]]
    ELSE [statusCode |-> 500,
          body |-> [error |-> IF v = "fireworks" THEN <<"Request Failed">>
                              ELSE IF err.message = <<>> THEN <<"Unknown error">>
                              ELSE err.message,
                    name |-> err.name]]

\* edge-functions/api-proxy.js:5-67, part_002:8-32, part_002:147-205,
\* perplexity.js:12-41: what the handler answers before it calls the upstream,
\* or NoResult when the event goes on to the call.
DirectValidate(v, key, ev) ==
    CASE ev.httpMethod = "OPTIONS" ->
             [statusCode |-> IF v \in {"edge", "fireworks"} THEN 204 ELSE 200,
              body |-> [text |-> <<>>]]
      [] ev.httpMethod # "POST" ->
             [statusCode |-> 405, body |-> [error |-> <<"Method Not Allowed">>]]
      [] ~key ->
             [statusCode |-> 500, body |-> [error |-> <<"API key not configured">>]]
      [] ev.body.kind = "badjson" /\ v \in {"edge", "fireworks"} ->
             [statusCode |-> 400, body |-> [error |-> <<"Invalid JSON in request body">>]]
      [] ev.body.kind = "badjson" ->
             DirectCatch(v, [name |-> "SyntaxError", message |-> <<"Unexpected token">>])
      [] ev.body.kind = "noquery" /\ v = "perplexity" ->
             [statusCode |-> 400, body |-> [error |-> <<"Query parameter is required">>]]
      [] OTHER -> NoResult

\* The handler is invoked and runs up to its fetch(). The edge and fallback
\* proxies send stream: false, the Fireworks proxy spreads the request body, the
\* Perplexity proxy sends neither max_tokens nor stream.
DirectHandle ==
    /\ ppc = "idle"
    /\ variant \in DirectHandlers
    /\ \E ev \in DirectEvents :
          /\ event' = ev
          /\ IF DirectValidate(variant, apiKey, ev) # NoResult
             THEN /\ ProxyReturn(DirectValidate(variant, apiKey, ev))
                  /\ UNCHANGED <<cleanedParams, fetches>>
             ELSE /\ cleanedParams' =
                        [model |-> IF variant = "edge" THEN "deepseek-chat"
                                   ELSE IF variant = "perplexity" THEN "sonar-pro"
                                   ELSE "requested",
                         max_tokens |-> IF variant = "perplexity" THEN 0
                                        ELSE NormalizeMaxTokens(variant, ev.body.max_tokens),
                         stream |-> variant = "fireworks" /\ ev.body.stream]
                  /\ fetches' = 1
                  /\ ppc' = "dfetch"
                  /\ UNCHANGED result
    /\ UNCHANGED <<variant, apiKey, retries, response, attempts, waits, ragVars, relayVars>>

\* fetch() resolved with a response before the timer fired.
DirectFetchResponds ==
    /\ ppc = "dfetch"
    /\ \E rs \in UpstreamResponses(cleanedParams.stream) :
          /\ response' = rs
          /\ attempts' = Append(attempts, [kind |-> "status", status |-> rs.status])
          /\ ppc' = IF Ok(rs.status) THEN "djson" ELSE "dtext"
    /\ UNCHANGED <<variant, apiKey, event, cleanedParams, retries, fetches, waits,
                   result, ragVars, relayVars>>

\* fetch() rejected with a network failure.
DirectFetchThrows ==
    /\ ppc = "dfetch"
    /\ attempts' = Append(attempts, [kind |-> NetworkError.name, status |-> 0])
    /\ ProxyReturn(DirectCatch(variant, NetworkError))
    /\ UNCHANGED <<variant, apiKey, event, cleanedParams, retries, response, fetches,
                   waits, ragVars, relayVars>>

\* The timer of the call fired while the fetch was pending.
DirectTimeout ==
    /\ ppc = "dfetch"
    /\ attempts' = Append(attempts, [kind |-> "timeout", status |-> 0])
    /\ ProxyReturn(DirectCatch(variant, TimeoutError(variant)))
    /\ UNCHANGED <<variant, apiKey, event, cleanedParams, retries, response, fetches,
                   waits, ragVars, relayVars>>

\* edge-functions/api-proxy.js:124-155, part_002:84-108, part_002:277-292,
\* perplexity.js:81-104: the body of an error response was read.
DirectTextRead ==
    /\ ppc = "dtext"
    /\ ProxyReturn([statusCode |-> response.status,
                    body |-> [error |-> <<"API error: ", ToString(response.status)>>,
                              message |-> IF response.body # <<>> THEN response.body
                                          ELSE <<"Error ", ToString(response.status)>>]])
    /\ UNCHANGED <<variant, apiKey, event, cleanedParams, retries, response, fetches,
                   attempts, waits, ragVars, relayVars>>

\* edge-functions/api-proxy.js:158-171, part_002:111-114, part_002:295-308,
\* perplexity.js:107-133: response.json() settled.
DirectJsonRead ==
    /\ ppc = "djson"
    /\ ProxyReturn(
          IF JSONParse(response.body).ok
          THEN [statusCode |-> 200,
                body |-> [text |-> JSONStringify(JSONParse(response.body).value),
                          shape |-> IF variant = "perplexity" THEN "answer, sources, metadata"
                                    ELSE IF variant = "fireworks" THEN "data, performance"
                                    ELSE "data"]]
          ELSE DirectCatch(variant, IF response.body = TruncatedBody
                                    THEN BodyReadError ELSE InvalidJsonError))
    /\ UNCHANGED <<variant, apiKey, event, cleanedParams, retries, response, fetches,
                   attempts, waits, ragVars, relayVars>>

NextDirect ==
    \/ DirectHandle
    \/ DirectFetchResponds
    \/ DirectFetchThrows
    \/ DirectTimeout
    \/ DirectTextRead
    \/ DirectJsonRead

InitProxies ==
    /\ RagIdle
    /\ fireworksApiKey
    /\ mongoDbUri
    /\ variant \in Variants \cup DirectHandlers
    /\ apiKey \in BOOLEAN
    /\ ProxyIdle
    /\ RelayIdle

NextProxies ==
    \/ NextProxy
    \/ NextDirect

\* One invocation of any of the proxy handlers.
SpecProxies == InitProxies /\ [][NextProxies]_vars

\* ------------------------------------ streaming relay (api/streaming-proxy.js)
\* The most lines an upstream text is made of.
MaxLines == 3

\* streaming-proxy.js:137-141: the prefix of a data line and the end marker.
DataPrefix == <<"d", "a", "t", "a", ":", " ">>
Sentinel == <<"[", "D", "O", "N", "E", "]">>

DataLine(payload) == DataPrefix \o payload \o <<"\n">>

\* The lines an upstream sends: data lines, the end marker, a blank line, a
\* comment line.
UpstreamLines ==
    {DataLine(<<"x">>), DataLine(<<"y">>), DataLine(Sentinel), <<"\n">>, <<":", "\n">>}

\* What may follow the last newline when the stream ends: nothing, or a data
\* line that was not terminated.
Tails == {<<>>, DataPrefix \o <<"z">>}

RECURSIVE Flatten(_)
Flatten(ls) == IF ls = <<>> THEN <<>> ELSE Head(ls) \o Flatten(Tail(ls))

UpstreamTexts ==
    {Flatten(ls) \o t :
        ls \in UNION {[1..n -> UpstreamLines] : n \in 0..MaxLines}, t \in Tails}

\* The requests the relay is invoked with.
RelayEvents ==
    {[httpMethod |-> m, body |-> [kind |-> "none", max_tokens |-> Undefined, stream |-> FALSE]] :
        m \in {"OPTIONS", "GET"}}
      \cup {[httpMethod |-> "POST", body |-> [kind |-> "badjson", max_tokens |-> Undefined, stream |-> FALSE]]}
      \cup {[httpMethod |-> "POST", body |-> [kind |-> "json", max_tokens |-> mt, stream |-> FALSE]] :
              mt \in {Undefined, Num(0), Num(9000)}}

\* The events written to the sink.
DataEvent(payload) == [type |-> "data", payload |-> payload]
DoneEvent == [type |-> "done", payload |-> <<>>]
ErrorEvent(message) == [type |-> "error", payload |-> message]

\* String.prototype.split('\n'): the pieces between the newlines, the rest
\* after the last one included.
RECURSIVE Split(_)
Split(s) ==
    IF \A i \in DOMAIN s : s[i] # "\n" THEN <<s>>
    ELSE LET i == CHOOSE k \in DOMAIN s :
                     s[k] = "\n" /\ \A j \in 1..(k - 1) : s[j] # "\n"
         IN  <<SubSeq(s, 1, i - 1)>> \o Split(SubSeq(s, i + 1, Len(s)))

\* String.prototype.startsWith
StartsWith(s, prefix) ==
    Len(s) >= Len(prefix) /\ SubSeq(s, 1, Len(prefix)) = prefix

\* streaming-proxy.js:136-152: the events written for the complete lines.
RECURSIVE EventsOf(_)
EventsOf(lines) ==
    IF lines = <<>> THEN <<>>
    ELSE LET line == Head(lines)
             data == SubSeq(line, Len(DataPrefix) + 1, Len(line))
         IN  (IF ~StartsWith(line, DataPrefix) THEN <<>>
              ELSE IF data = Sentinel THEN <<DoneEvent>>
              ELSE <<DataEvent(data)>>) \o EventsOf(Tail(lines))

\* lines.pop(): all pieces but the last.
Front(s) == SubSeq(s, 1, Len(s) - 1)

\* Mutant: the catch writes the error event and leaves the response open.
RelayCatchNoEnd(err) ==
    /\ sink' = Append(sink, ErrorEvent(err.message))
    /\ ended' = ended
    /\ timer' = FALSE
    /\ ppc' = "done"

\* streaming-proxy.js:163-175: the outer catch writes one error event and ends
\* the response.
RelayCatch(err) ==
    /\ sink' = Append(sink, ErrorEvent(IF err.name = "AbortError"
                                       THEN <<"The streaming request took too long to process.">>
                                       ELSE err.message))
    /\ ended' = ended + 1
    /\ timer' = FALSE
    /\ ppc' = "done"

\* streaming-proxy.js:6-88: the relay is invoked and runs up to its fetch().
\* Reading req.body of a request whose JSON is malformed throws.
RelayHandle ==
    /\ ppc = "idle"
    /\ variant = "relay"
    /\ \E ev \in RelayEvents :
          /\ event' = ev
          /\ CASE ev.httpMethod = "OPTIONS" ->
                    /\ ProxyReturn([statusCode |-> 200, body |-> [text |-> <<>>]])
                    /\ ended' = ended + 1
                    /\ UNCHANGED <<cleanedParams, fetches, sink, opened, timer>>
               [] ev.httpMethod # "POST" ->
                    /\ ProxyReturn([statusCode |-> 405,
                                    body |-> [error |-> <<"Method Not Allowed">>]])
                    /\ ended' = ended + 1
                    /\ UNCHANGED <<cleanedParams, fetches, sink, opened, timer>>
               [] ~apiKey ->
                    /\ ProxyReturn([statusCode |-> 500,
                                    body |-> [error |-> <<"API key not configured">>]])
                    /\ ended' = ended + 1
                    /\ UNCHANGED <<cleanedParams, fetches, sink, opened, timer>>
               [] ev.body.kind = "badjson" ->
                    /\ RelayCatch([name |-> "SyntaxError", message |-> <<"Unexpected token">>])
                    /\ UNCHANGED <<cleanedParams, fetches, opened, result>>
               [] OTHER ->
                    /\ cleanedParams' =
                          [model |-> "requested",
                           max_tokens |-> NormalizeMaxTokens(variant, ev.body.max_tokens),
                           stream |-> TRUE]
                    /\ opened' = TRUE
                    /\ timer' = TRUE
                    /\ fetches' = fetches + 1
                    /\ ppc' = "rfetch"
                    /\ UNCHANGED <<sink, ended, result>>
    /\ UNCHANGED <<variant, apiKey, retries, response, attempts, waits,
                   upstream, pos, buffer, ragVars>>

\* streaming-proxy.js:85-121: fetch() resolved; the timer is cleared. A
\* success starts the read loop over the body, whatever text it will carry.
RelayFetchResponds ==
    /\ ppc = "rfetch"
    /\ timer' = FALSE
    /\ \E st \in UpstreamStatuses :
          IF Ok(st)
          THEN /\ \E txt \in UpstreamTexts :
                     /\ response' = [status |-> st, body |-> <<>>]
                     /\ upstream' = txt
               /\ ppc' = "rread"
          ELSE /\ \E b \in {ErrorJsonBody, RawErrorBody} :
                     response' = [status |-> st, body |-> b]
               /\ ppc' = "rtext"
               /\ UNCHANGED upstream
    /\ UNCHANGED <<variant, apiKey, event, cleanedParams, retries, fetches, attempts,
                   waits, result, pos, buffer, sink, opened, ended, ragVars>>

\* streaming-proxy.js:159-175: fetch() rejected with a network failure.
RelayFetchThrows ==
    /\ ppc = "rfetch"
    /\ RelayCatch(NetworkError)
    /\ UNCHANGED <<variant, apiKey, event, cleanedParams, retries, response, fetches,
                   attempts, waits, result, upstream, pos, buffer, opened, ragVars>>

\* streaming-proxy.js:82, 159-175: the 60 s timer fired while it was armed and
\* aborted the fetch.
RelayTimeout ==
    /\ ppc = "rfetch"
    /\ timer
    /\ RelayCatch(AbortError)
    /\ UNCHANGED <<variant, apiKey, event, cleanedParams, retries, response, fetches,
                   attempts, waits, result, upstream, pos, buffer, opened, ragVars>>

\* Mutant: the error event is followed by the final done event.
RelayErrorReadThenDone ==
    /\ ppc = "rtext"
    /\ sink' = sink \o <<ErrorEvent(response.body), DoneEvent>>
    /\ ended' = ended + 1
    /\ ppc' = "done"
    /\ UNCHANGED <<variant, apiKey, event, cleanedParams, retries, response, fetches,
                   attempts, waits, result, upstream, pos, buffer, opened, timer, ragVars>>

\* streaming-proxy.js:93-116: the body of the error response was read; one
\* error event is written.
RelayErrorRead ==
    /\ ppc = "rtext"
    /\ sink' = Append(sink, ErrorEvent(
                  IF response.status = 401
                  THEN <<"Authentication failed. Please check your Fireworks API key.">>
                  ELSE IF response.status = 429
                  THEN <<"Rate limit exceeded. Please try again in a few moments.">>
                  ELSE IF JSONParse(response.body).ok
                  THEN ParsedErrorMessage("relay", JSONParse(response.body).value)
                  ELSE response.body))
    /\ ended' = ended + 1
    /\ ppc' = "done"
    /\ UNCHANGED <<variant, apiKey, event, cleanedParams, retries, response, fetches,
                   attempts, waits, result, upstream, pos, buffer, opened, timer, ragVars>>

\* Mutant: each chunk is split on its own, nothing is held back.
RelayReadNoBuffer ==
    /\ ppc = "rread"
    /\ pos < Len(upstream)
    /\ \E n \in 1..(Len(upstream) - pos) :
          LET lines == Split(SubSeq(upstream, pos + 1, pos + n))
          IN  /\ pos' = pos + n
              /\ buffer' = <<>>
              /\ sink' = sink \o EventsOf(lines)
    /\ UNCHANGED <<variant, apiKey, ppc, event, cleanedParams, retries, response,
                   fetches, attempts, waits, result, upstream, opened, ended, timer,
                   ragVars>>

\* streaming-proxy.js:125-152: reader.read() delivered the next chunk, of any
\* size.
RelayRead ==
    /\ ppc = "rread"
    /\ pos < Len(upstream)
    /\ \E n \in 1..(Len(upstream) - pos) :
          LET lines == Split(buffer \o SubSeq(upstream, pos + 1, pos + n))
          IN  /\ pos' = pos + n
              /\ buffer' = lines[Len(lines)]
              /\ sink' = sink \o EventsOf(Front(lines))
    /\ UNCHANGED <<variant, apiKey, ppc, event, cleanedParams, retries, response,
                   fetches, attempts, waits, result, upstream, opened, ended, timer,
                   ragVars>>

\* Mutant: the stream ends without a final event.
RelayReadDoneSilent ==
    /\ ppc = "rread"
    /\ pos = Len(upstream)
    /\ ended' = ended + 1
    /\ ppc' = "done"
    /\ UNCHANGED <<variant, apiKey, event, cleanedParams, retries, response, fetches,
                   attempts, waits, result, upstream, pos, buffer, sink, opened, timer,
                   ragVars>>

\* streaming-proxy.js:125-126, 155-157: reader.read() reported done; the final
\* event is written and the response ended.
RelayReadDone ==
    /\ ppc = "rread"
    /\ pos = Len(upstream)
    /\ sink' = Append(sink, DoneEvent)
    /\ ended' = ended + 1
    /\ ppc' = "done"
    /\ UNCHANGED <<variant, apiKey, event, cleanedParams, retries, response, fetches,
                   attempts, waits, result, upstream, pos, buffer, opened, timer,
                   ragVars>>

\* streaming-proxy.js:125, 159-175: reader.read() rejected (the connection to
\* the upstream broke).
RelayReadThrows ==
    /\ ppc = "rread"
    /\ RelayCatch(BodyReadError)
    /\ UNCHANGED <<variant, apiKey, event, cleanedParams, retries, response, fetches,
                   attempts, waits, result, upstream, pos, buffer, opened, ragVars>>

InitRelay ==
    /\ RagIdle
    /\ fireworksApiKey
    /\ mongoDbUri
    /\ variant = "relay"
    /\ apiKey \in BOOLEAN
    /\ ProxyIdle
    /\ RelayIdle

NextRelay ==
    \/ RelayHandle
    \/ RelayFetchResponds
    \/ RelayFetchThrows
    \/ RelayTimeout
    \/ RelayErrorRead
    \/ RelayRead
    \/ RelayReadDone
    \/ RelayReadThrows

\* One invocation of the streaming relay.
SpecRelay == InitRelay /\ [][NextRelay]_vars

\* The relay with its timer: an armed timer fires unless it is cleared first.
\* The upstream is not obliged to answer or to deliver the next chunk.
SpecRelayLive == SpecRelay /\ WF_vars(RelayTimeout)

\* ================================================================== claims

\* The calls that waited on attempt a while it was in flight: the call that
\* started it and the calls that awaited its promise.
WaitedOn(a) == {c \in Callers : joined[c] = a}

\* C1: starting from an empty cache, while the first connection attempt is in
\* flight every acquire call issued joins it and exactly one client.connect()
\* has been started; once it has succeeded, every one of these calls resolves
\* to the handle of that attempt (none rejects, none is left pending once the
\* continuations have run).
C1_OneAttemptSameHandle ==
    /\ attempt[1] = "pending" =>
          /\ ConnectsStarted = 1
          /\ \A c \in Callers : callSt[c] # "none" => joined[c] = 1
    /\ attempt[1] = "resolved" =>
          \A c \in WaitedOn(1) :
             /\ callP[c] = 1
             /\ CallResult(c).kind # "rejected"
             /\ CallResult(c).kind = "resolved" => CallResult(c).val = 1
             /\ Quiescent => CallResult(c).kind = "resolved"

\* C1 witness: three calls joined the first attempt, it succeeded, and all
\* three have resolved to its handle.
C1_Witness ==
    /\ attempt[1] = "resolved"
    /\ Cardinality(WaitedOn(1)) >= 3
    /\ \A c \in WaitedOn(1) : CallResult(c) = [kind |-> "resolved", val |-> 1]

\* C2: in every reachable state at most one connection attempt is in flight.
C2_AtMostOneInFlight ==
    Cardinality(InFlight) <= 1

C4_FailureResetsCache ==
    [][ /\ (\E a \in Attempts : attempt[a] = "pending" /\ attempt'[a] = "rejected")
           => (connectionPromise' = Null /\ cachedDb' = Null)
        /\ \A c \in Callers :
              (callSt[c] = "none" /\ callSt'[c] # "none"
                 /\ connectionPromise = Null /\ cachedDb = Null)
              => (ConnectsStarted' = ConnectsStarted + 1 /\ callSt'[c] = "adopt")
      ]_vars

\* C5: once the cache holds a handle it holds that same handle for ever, and
\* no connection attempt is started any more.
C5_ReadyForever ==
    [][ cachedDb # Null =>
           (cachedDb' = cachedDb /\ ConnectsStarted' = ConnectsStarted) ]_vars

\* The response of request r has field f in its JSON body.
Has(r, f) == "body" \in DOMAIN resp[r] /\ f \in DOMAIN resp[r].body

\* The request passed validation and entered the pipeline.
Valid(r) == issued[r] # <<>>

Calls(r) == {issued[r][i] : i \in DOMAIN issued[r]}

\* C6: a valid request whose embedding call failed (status, network error or
\* malformed body) is answered 200 with fallback = true, no sources and an
\* answer that contains the query text, and neither the vector search nor the
\* generation call was issued for it.
C6_EmbeddingFailureFallback ==
    \A r \in Req :
       outcome[r]["embedding"] = "failed" =>
          /\ pc[r] = "done"
          /\ resp[r].status = 200
          /\ Has(r, "fallback") /\ resp[r].body.fallback = TRUE
          /\ resp[r].body.sources = <<>>
          /\ Includes(resp[r].body.answer, query[r])
          /\ Calls(r) \cap {"search", "llm"} = {}

\* C6 witness: a request whose connection succeeded and whose embedding call
\* failed has been answered.
C6_Witness ==
    \E r \in Req :
       /\ pc[r] = "done"
       /\ outcome[r]["connect"] = "ok"
       /\ outcome[r]["embedding"] = "failed"
       /\ resp[r].status = 200

RetrievalFailed(r) ==
    \/ outcome[r]["connect"] \in {"failed", "timeout"}
    \/ outcome[r]["search"] \in {"failed", "timeout"}

\* C7: a valid request whose connection acquisition or vector search failed or
\* timed out, while embedding and generation succeeded, is answered 200 with
\* fallback = true, no sources and the text the generation call returned.
C7_RetrievalFailureRealAnswer ==
    \A r \in Req :
       (/\ pc[r] = "done"
        /\ RetrievalFailed(r)
        /\ outcome[r]["embedding"] = "ok"
        /\ outcome[r]["llm"] = "ok") =>
          /\ resp[r].status = 200
          /\ resp[r].body.fallback = TRUE
          /\ resp[r].body.sources = <<>>
          /\ resp[r].body.answer \in Answers
          /\ resp[r].body.answer # generateFallbackResponse(query[r]).answer

\* C7 witness: one answered request lost the search race, another could not
\* acquire the connection, and both got the generated text.
C7_Witness ==
    \E r, t \in Req :
       /\ pc[r] = "done" /\ pc[t] = "done"
       /\ outcome[r]["search"] = "timeout" /\ outcome[r]["llm"] = "ok"
       /\ outcome[t]["connect"] = "failed" /\ outcome[t]["llm"] = "ok"
       /\ resp[r].body.answer \in Answers
       /\ resp[t].body.answer \in Answers

\* C8: a valid request whose embedding succeeded and whose generation call
\* failed or timed out is answered 200 with the templated apology quoting the
\* query, fallback = true, and the retrieved documents as sources (same
\* elements, same order, truncated).
C8_GenerationFailureKeepsSources ==
    \A r \in Req :
       (/\ pc[r] = "done"
        /\ outcome[r]["embedding"] = "ok"
        /\ outcome[r]["llm"] \in {"failed", "timeout"}) =>
          /\ resp[r].status = 200
          /\ resp[r].body.answer = generateFallbackResponse(query[r]).answer
          /\ Includes(resp[r].body.answer, query[r])
          /\ resp[r].body.fallback = TRUE
          /\ resp[r].body.sources = Sources(queryResult[r])

\* C9: every request that passed validation is answered with status 200,
\* whatever the outcomes of connection acquisition, embedding, vector search
\* and generation.
C9_StageFailureNever5xx ==
    \A r \in Req : (pc[r] = "done" /\ Valid(r)) => resp[r].status = 200

\* C10 as claimed: every response with fallback = true carries an error field.
C10_ErrorFieldWheneverDegraded ==
    \A r \in Req :
       (pc[r] = "done" /\ Has(r, "fallback") /\ resp[r].body.fallback = TRUE) =>
          Has(r, "error")

\* C10 as amended: a response with fallback = true carries an error field
\* exactly when its answer is the templated apology (the embedding or the
\* generation call failed); when retrieval degraded and generation succeeded,
\* the response carries the generated answer and fallback = true but no error
\* field.
C10_ErrorFieldIffTemplatedAnswer ==
    \A r \in Req :
       (pc[r] = "done" /\ Has(r, "fallback") /\ resp[r].body.fallback = TRUE) =>
          /\ Has(r, "error") <=>
                resp[r].body.answer = generateFallbackResponse(query[r]).answer
          /\ Has(r, "error") <=>
                (\/ outcome[r]["embedding"] = "failed"
                 \/ outcome[r]["llm"] \in {"failed", "timeout"})
          /\ ~Has(r, "error") =>
                (RetrievalFailed(r) /\ resp[r].body.answer \in Answers)
          /\ Has(r, "answer") /\ Has(r, "sources")

\* C10 witness: one degraded response carries the templated apology with an
\* error field, another the generated answer without one.
C10_Witness ==
    \E r, t \in Req :
       /\ pc[r] = "done" /\ pc[t] = "done"
       /\ Has(r, "fallback") /\ resp[r].body.fallback = TRUE /\ Has(r, "error")
       /\ outcome[r]["llm"] = "timeout"
       /\ Has(t, "fallback") /\ resp[t].body.fallback = TRUE /\ ~Has(t, "error")

Degraded(r) == \E st \in Stages : outcome[r][st] \in {"failed", "timeout"}

\* C11: in every 200 response the fallback flag is true exactly when one of
\* connection acquisition, embedding, vector search or generation failed or
\* timed out for that request; fallback = false comes only with all four
\* stages succeeded and the generated text as the answer.
C11_FallbackIffDegraded ==
    \A r \in Req :
       (pc[r] = "done" /\ resp[r].status = 200) =>
          /\ Has(r, "fallback")
          /\ resp[r].body.fallback <=> Degraded(r)
          /\ ~resp[r].body.fallback =>
                /\ \A st \in Stages : outcome[r][st] = "ok"
                /\ resp[r].body.answer \in Answers
                /\ ~Has(r, "error")

\* C11 witness: one request answered with fallback = false and its sources,
\* another whose only failure was the vector search answered with fallback = true.
C11_Witness ==
    \E r, t \in Req :
       /\ pc[r] = "done" /\ resp[r].status = 200 /\ ~resp[r].body.fallback
       /\ resp[r].body.sources # <<>>
       /\ pc[t] = "done" /\ resp[t].status = 200 /\ resp[t].body.fallback
       /\ outcome[t] = [st \in Stages |-> IF st = "search" THEN "failed" ELSE "ok"]

Original(r, i) == Doc(queryResult[r][i]).response

\* C13: every emitted sources[i].response equals the original response when
\* that has at most 200 characters, and otherwise its first 200 characters
\* followed by "..."; it has at most 203 characters and, the ellipsis taken
\* off, is a prefix of the original.
C13_SourceTruncation ==
    \A r \in Req :
       (Has(r, "sources") /\ resp[r].body.sources # <<>>) =>
          \A i \in DOMAIN resp[r].body.sources :
             LET out == resp[r].body.sources[i].response
                 orig == Original(r, i).v
             IN  Original(r, i).t = "text" =>
                    /\ Len(orig) <= 200 => out = orig
                    /\ Len(orig) > 200 =>
                          /\ Len(out) = 203
                          /\ SubSeq(out, 1, 200) = SubSeq(orig, 1, 200)
                          /\ SubSeq(out, 201, 203) = <<".", ".", ".">>
                    /\ Len(out) <= 203
                    /\ LET kept == IF Len(orig) > 200 THEN SubSeq(out, 1, Len(out) - 3)
                                                      ELSE out
                       IN  /\ Len(kept) <= Len(orig)
                           /\ kept = SubSeq(orig, 1, Len(kept))

\* C13 witness: a response whose sources hold a response of 201 characters
\* cut to 203, one of exactly 200 characters left whole, and a short one.
C13_Witness ==
    \E r \in Req :
       /\ Has(r, "sources")
       /\ \E i, j, k \in DOMAIN resp[r].body.sources :
             /\ Len(Original(r, i).v) = 201 /\ Len(resp[r].body.sources[i].response) = 203
             /\ Len(Original(r, j).v) = 200 /\ Len(resp[r].body.sources[j].response) = 200
             /\ Original(r, k).t = "text" /\ Len(Original(r, k).v) < 10
             /\ resp[r].body.sources[k].response = Original(r, k).v

\* The positions at which the blocks of a context string start.
BlockStarts(ctx) == {p \in DOMAIN ctx : ctx[p] = "Question: "}

\* The "Question: ..." line that opens the block of the i-th returned document.
QuestionLine(r, i) ==
    <<"Question: ">> \o
       (IF Doc(queryResult[r][i]).instruction.t = "text"
        THEN Doc(queryResult[r][i]).instruction.v ELSE <<"Unknown">>)

\* The sources of a written response follow the documents the search returned.
SourcesFollowResult(r) ==
    /\ DOMAIN resp[r].body.sources = DOMAIN queryResult[r]
    /\ \A i \in DOMAIN queryResult[r] :
          LET d == Doc(queryResult[r][i])
              src == resp[r].body.sources[i]
          IN  /\ src.score = d.score
              /\ src.instruction = (IF d.instruction.t = "text" THEN d.instruction.v ELSE <<>>)
              /\ src.context = (IF d.context.t = "text" THEN d.context.v ELSE <<>>)
              /\ d.response.t = "text" =>
                    (src.response # <<>> /\ src.response[1] = d.response.v[1])

\* The context string of the chat turns holds one block per returned document,
\* the i-th block from the left opening with the question line of the i-th
\* document.
ContextFollowsResult(r) ==
    LET ctx == messages[r][1].content
        starts == BlockStarts(ctx)
        nth == [i \in DOMAIN queryResult[r] |->
                   CHOOSE p \in starts : Cardinality({q \in starts : q < p}) = i - 1]
    IN  /\ Cardinality(starts) = Len(queryResult[r])
        /\ \A i \in DOMAIN queryResult[r] :
              SubSeq(ctx, nth[i], nth[i] + Len(QuestionLine(r, i)) - 1) = QuestionLine(r, i)

\* C14: the i-th emitted source is the i-th document the search returned
\* (same instruction, context and score, response starting alike), none dropped,
\* duplicated or moved; and the context string the generation call is sent
\* with holds one block per returned document, in the same order.
C14_SourceOrderPreserved ==
    \A r \in Req :
       /\ (Has(r, "sources") /\ outcome[r]["embedding"] = "ok") => SourcesFollowResult(r)
       /\ (messages[r] # NoMessages /\ ~usedFallback[r]) => ContextFollowsResult(r)

\* C14 witness: one request has been answered with the generated text and six
\* sources for the six documents returned, while the generation call of
\* another is in flight with a context of six blocks.
C14_Witness ==
    \E r, t \in Req :
       /\ pc[r] = "done" /\ resp[r].status = 200 /\ ~resp[r].body.fallback
       /\ Len(queryResult[r]) = 6 /\ Len(resp[r].body.sources) = 6
       /\ pc[t] = "awaitLLM" /\ Len(queryResult[t]) = 6
       /\ Cardinality(BlockStarts(messages[t][1].content)) = 6

\* The stage an upstream call belongs to, and the place of a call in the pipeline.
StageOf(call) ==
    CASE call \in {"connectToDatabase", "stats"} -> "connect"
      [] call = "embedding" -> "embedding"
      [] call = "search" -> "search"
      [] OTHER -> "llm"
Rank(call) ==
    CASE call = "connectToDatabase" -> 1
      [] call = "stats" -> 2
      [] call = "embedding" -> 3
      [] call = "search" -> 4
      [] OTHER -> 5

\* C15: within one request the vector search is issued only after the
\* embedding call has succeeded and only if connection acquisition succeeded
\* (otherwise it is skipped); the generation call is issued only after the
\* search has ended or been skipped; and whenever a stage call has been started
\* every earlier stage of the request has ended (result, failure or timeout),
\* so no two stage calls of a request are started side by side.
C15_StagesInSequence ==
    \A r \in Req :
       LET calls == Calls(r)
           n == Len(issued[r])
       IN  /\ "search" \in calls =>
                 (outcome[r]["embedding"] = "ok" /\ outcome[r]["connect"] = "ok")
           /\ "llm" \in calls =>
                 /\ outcome[r]["embedding"] = "ok"
                 /\ IF "search" \in calls
                    THEN outcome[r]["search"] # "none"
                    ELSE outcome[r]["connect"] \in {"failed", "timeout"}
           /\ \A i \in 1..(n - 1) :
                 /\ Rank(issued[r][i]) < Rank(issued[r][i + 1])
                 /\ outcome[r][StageOf(issued[r][i])] # "none"

\* C15 witness: one answered request went through all the calls in order,
\* another skipped the search after its connection timed out.
C15_Witness ==
    \E r, t \in Req :
       /\ pc[r] = "done"
       /\ issued[r] = <<"connectToDatabase", "stats", "embedding", "search", "llm">>
       /\ pc[t] = "done" /\ outcome[t]["connect"] = "timeout"
       /\ issued[t] = <<"connectToDatabase", "embedding", "llm">>

\* C16: connection acquisition is attempted only once an embedding is in hand,
\* and a request whose embedding call failed has started no connection attempt.
C16_ConnectOnlyAfterEmbedding ==
    \A r \in Req :
       /\ "connectToDatabase" \in Calls(r) => outcome[r]["embedding"] = "ok"
       /\ outcome[r]["embedding"] = "failed" => "connectToDatabase" \notin Calls(r)

\* The request carries no usable query.
QueryMissing(rq) == rq.body.query = <<>>

\* The request was answered before any upstream call, the cache left as it was.
FailedFast(r) ==
    /\ pc'[r] = "done"
    /\ issued'[r] = <<>>
    /\ cacheVars' = cacheVars
    /\ callVars' = callVars

\* C17: a POST request with a missing credential is answered 500, and one with
\* both credentials and a missing or empty query is answered 400; in both
\* cases no connection, embedding, search or generation call is made and the
\* connection cache is left unchanged.
C17_ValidationFailsFast ==
    [][ \A r \in Req :
          (pc[r] = "idle" /\ pc'[r] # "idle" /\ request'[r].method = "POST") =>
             /\ (~fireworksApiKey \/ ~mongoDbUri) =>
                   (resp'[r].status = 500 /\ FailedFast(r))
             /\ (fireworksApiKey /\ mongoDbUri /\ QueryMissing(request'[r])) =>
                   (resp'[r].status = 400 /\ FailedFast(r))
      ]_vars

\* C18: every valid request is eventually answered, even if an upstream
\* collaborator (store connect, collection stats, embedding endpoint, vector
\* search, generation endpoint and its body read) never answers, the timers
\* being the only thing assumed to fire.
C18_EveryValidRequestAnswered ==
    \A r \in Req : Valid(r) ~> (pc[r] = "done")

\* The upstream request ended in a failure that is retried: a retryable status
\* or an exception.
FailedAttempt(a) == a.kind # "status" \/ Retryable(variant, a.status)

Recovered ==
    /\ attempts # <<>>
    /\ Len(attempts) <= 3
    /\ attempts[Len(attempts)] = [kind |-> "status", status |-> 200]
    /\ \A i \in 1..(Len(attempts) - 1) : FailedAttempt(attempts[i])

\* C20: when the first k attempts (k = 0, 1, 2) ended in a retried failure
\* (502, 503 where retried, an exception) and attempt k+1 answered 200, the
\* call has issued exactly k+1 requests and returns status 200 with the body
\* of that last response (the same JSON document).
C20_RecoveryReturnsBody ==
    (ppc = "done" /\ Recovered) =>
       /\ fetches = Len(attempts)
       /\ result.statusCode = 200
       /\ JSONParse(result.body.text).ok
       /\ JSONParse(result.body.text).value = JSONParse(response.body).value

\* The attempt ended in one of the outcomes the specification lets the proxy
\* retry: a 502, a 503 in the version that retries it, or an exception.
MayRetryAfter(a) ==
    \/ a.kind # "status"
    \/ a.status = 502
    \/ (a.status = 503 /\ variant = "first")

C22_BackoffIncreasing ==
    \A i \in DOMAIN waits : \A j \in DOMAIN waits : i < j => waits[i] < waits[j]

\* C22 witness: a third attempt was started after a 502 and an exception, with
\* two waits before it.
C22_Witness ==
    /\ fetches = 3
    /\ Len(attempts) = 2
    /\ attempts[1] = [kind |-> "status", status |-> 502]
    /\ attempts[2].kind = "FetchError"
    /\ Len(waits) = 2
    /\ waits[1] < waits[2]

\* C23: after the n-th failed attempt of a call (n = 1, 2) the wait before
\* attempt n+1 is n x 2000 ms (first version of the function and debug
\* version, the ones whose unit is 2000 ms).
C23_BackoffNTimesTwoSeconds ==
    variant # "second" =>
       \A n \in DOMAIN waits : n <= 2 => waits[n] = n * 2000

\* The call ended because fetch threw on the last attempt the budget allows.
ThrewOnLastAttempt ==
    /\ ppc = "done"
    /\ Len(attempts) = 3
    /\ attempts[3].kind # "status"

\* C24: an exception of fetch on the last allowed attempt is not retried and
\* the caller gets an error response; when the exception is the abort of the
\* attempt's timer the error reported is the timeout message, and for a
\* network failure it is another message.
C24_FatalErrorReported ==
    ThrewOnLastAttempt =>
       /\ fetches = 3
       /\ retries = 0
       /\ result.statusCode >= 500
       /\ "error" \in DOMAIN result.body
       /\ (attempts[3].kind = "AbortError") <=> (result.body.error = TimeoutMessage(variant))

\* C24 witness: the third attempt was aborted by its timer after two network
\* failures, and the caller was told of a timeout.
C24_Witness ==
    /\ ThrewOnLastAttempt
    /\ attempts[1].kind = "FetchError"
    /\ attempts[2].kind = "FetchError"
    /\ attempts[3].kind = "AbortError"
    /\ result.body.error = TimeoutMessage(variant)

\* The call ended because the timer of its last attempt fired.
TimedOut ==
    /\ ppc = "done"
    /\ attempts # <<>>
    /\ attempts[Len(attempts)].kind \in {"AbortError", "timeout"}

\* C25: in every proxy handler (the retrying function in its versions, the
\* edge, fallback, Fireworks and Perplexity proxies) a call that ends because
\* its timeout fired is answered with status 504.
C25_TimeoutIs504 ==
    TimedOut => result.statusCode = 504

\* The handler forwards a max_tokens to the upstream and has built its request.
ForwardsMaxTokens ==
    /\ variant # "perplexity"
    /\ cleanedParams # NoParams

\* The ceiling of the clamp: part_002:230 for the Fireworks proxy, 8192
\* everywhere else.
Ceiling(v) == IF v = "fireworks" THEN 40000 ELSE 8192

\* C26: in every handler that forwards max_tokens, a request with
\* max_tokens = 0 is sent upstream with max_tokens = 1.
C26_ZeroClampsToOne ==
    (ForwardsMaxTokens /\ event.body.max_tokens = Num(0)) =>
       cleanedParams.max_tokens = 1

\* C27: for every integer max_tokens of the request, the max_tokens sent
\* upstream lies in 1..ceiling; an input above the ceiling is sent as the
\* ceiling and an input strictly inside the range is sent unchanged; in every
\* handler, the second and the debug version of the retrying function included.
C27_MaxTokensInRange ==
    (ForwardsMaxTokens /\ event.body.max_tokens.t = "num") =>
       LET in == event.body.max_tokens.v
           out == cleanedParams.max_tokens
       IN  /\ 1 <= out /\ out <= Ceiling(variant)
           /\ in > Ceiling(variant) => out = Ceiling(variant)
           /\ (1 < in /\ in < Ceiling(variant)) => out = in

\* The part of the upstream text the reader has delivered so far.
Received == SubSeq(upstream, 1, pos)

\* The payloads of the data lines among lines, the end marker left out.
DataPayloads(lines) ==
    LET sel == SelectSeq(lines, LAMBDA l :
                   StartsWith(l, DataPrefix) /\ l # DataPrefix \o Sentinel)
    IN  [i \in DOMAIN sel |-> SubSeq(sel[i], Len(DataPrefix) + 1, Len(sel[i]))]

\* The payloads of the data events written to the sink, in order.
Forwarded ==
    LET sel == SelectSeq(sink, LAMBDA e : e.type = "data")
    IN  [i \in DOMAIN sel |-> sel[i].payload]

\* The relay read the upstream stream to its end and closed the sink.
Relayed ==
    /\ ppc = "done"
    /\ opened
    /\ Ok(response.status)
    /\ pos = Len(upstream)
    /\ \A i \in DOMAIN sink : sink[i].type # "error"

\* C28: however the upstream text is cut into chunks (inside a line and inside
\* the data prefix too), the data events written are the payloads of the data
\* lines received completely so far, in upstream order; for a text of
\* newline-terminated lines the relay ends with the payloads of all its data
\* lines.
C28_ChunkIndependent ==
    /\ Forwarded = DataPayloads(Front(Split(Received)))
    /\ ppc = "rread" => buffer = Split(Received)[Len(Split(Received))]
    /\ (Relayed /\ upstream # <<>> /\ upstream[Len(upstream)] = "\n") =>
          Forwarded = DataPayloads(Front(Split(upstream)))

\* C28 witness: the first data line was forwarded and a chunk ended inside the
\* data prefix of the second.
C28_Witness ==
    /\ ppc = "rread"
    /\ upstream = DataLine(<<"x">>) \o DataLine(<<"y">>)
    /\ buffer = <<"d", "a", "t">>
    /\ sink = <<DataEvent(<<"x">>)>>

\* C29: for every stream relayed to its end, with or without the end marker in
\* it, exactly one done event is written to the sink.
C29_ExactlyOneDone ==
    Relayed => Cardinality({i \in DOMAIN sink : sink[i] = DoneEvent}) = 1

\* The upstream text has no end-marker line.
NoSentinel ==
    \A i \in DOMAIN Split(upstream) : Split(upstream)[i] # DataPrefix \o Sentinel

\* C30: when the upstream stream ends without the end marker, the relay has
\* written a done event as the last event and closed the sink.
C30_DoneWithoutSentinel ==
    (Relayed /\ NoSentinel) =>
       /\ sink # <<>>
       /\ sink[Len(sink)] = DoneEvent
       /\ \A i \in 1..(Len(sink) - 1) : sink[i] # DoneEvent
       /\ ended = 1

\* C30 witness: a stream of two data lines and no end marker was relayed, and
\* the sink holds both and then the done event.
C30_Witness ==
    /\ Relayed
    /\ upstream = DataLine(<<"x">>) \o DataLine(<<"y">>)
    /\ sink = <<DataEvent(<<"x">>), DataEvent(<<"y">>), DoneEvent>>
    /\ ended = 1

\* C31: once a done event has been written to the sink no data event is
\* written after it, even when the upstream sends data lines after the end
\* marker.
C31_NoDataAfterDone ==
    \A i \in DOMAIN sink : \A j \in DOMAIN sink :
       (i < j /\ sink[i] = DoneEvent) => sink[j].type # "data"

\* The upstream answered the relay's request with a status that is not a success.
RefusedUpstream ==
    /\ variant = "relay"
    /\ response # NoResponse
    /\ ~Ok(response.status)

\* C32: when the upstream answers the initial request with a non-success
\* status, the relay writes exactly one error event and no data or done event,
\* closes the sink, and has issued exactly one upstream request.
C32_ErrorEventOnRefusal ==
    RefusedUpstream =>
       /\ fetches = 1
       /\ \A i \in DOMAIN sink : sink[i].type = "error"
       /\ ppc \in {"rtext", "done"}
       /\ ppc = "rtext" => sink = <<>> /\ ended = 0
       /\ ppc = "done" => Len(sink) = 1 /\ ended = 1

\* C32 witness: the upstream answered 429 and the sink holds the rate-limit
\* error event alone, closed.
C32_Witness ==
    /\ RefusedUpstream
    /\ response.status = 429
    /\ ppc = "done"
    /\ sink = <<ErrorEvent(<<"Rate limit exceeded. Please try again in a few moments.">>)>>
    /\ ended = 1

\* The number of error events in a sequence of events.
Errors(events) == Cardinality({i \in DOMAIN events : events[i].type = "error"})

\* C33: on every path after the event-stream headers were written the sink is
\* closed once and no more, nothing is written after it is closed, the last
\* event before the close is a done event or an error event, and an exception
\* during the relay produces exactly one error event.
C33_SinkDiscipline ==
    [][opened' =>
         /\ ended' <= 1
         /\ ended = 1 => (sink' = sink /\ ended' = 1)
         /\ ppc' = "done" <=> ended' = 1
         /\ ended' = 1 =>
               /\ sink' # <<>>
               /\ sink'[Len(sink')].type \in {"done", "error"}
         /\ Errors(sink') <= 1
         /\ Errors(sink') = 1 => (ended' = 1 /\ sink'[Len(sink')].type = "error")]_vars

\* C33 witness: the connection broke after one data event; the sink holds that
\* event and one error event, and is closed.
C33_Witness ==
    /\ opened
    /\ ppc = "done"
    /\ ended = 1
    /\ Len(sink) = 2
    /\ sink[1] = DataEvent(<<"x">>)
    /\ sink[2].type = "error"

\* C34: once the sink has been opened it is eventually closed, even when the
\* upstream stops delivering bytes before or after its response headers.
C34_OpenedEventuallyClosed == opened ~> (ended = 1)

\* C35: when a connection attempt settles after every request that raced it
\* has lost the race to its 5 second timer, its result is discarded: the step
\* changes neither a response nor the state later requests see (the cache).
Abandoned(a) ==
    /\ attempt[a] = "pending"
    /\ \E r \in Req : outcome[r]["connect"] = "timeout" /\ callP[r] = a
    /\ \A r \in Req : callP[r] = a => outcome[r]["connect"] = "timeout"

C35_LateResultDiscarded ==
    [][\A a \in Attempts :
          (Abandoned(a) /\ attempt'[a] # "pending") =>
              /\ resp' = resp
              /\ cachedDb' = cachedDb
              /\ cachedClient' = cachedClient
              /\ connectionPromise' = connectionPromise]_vars

\* C36: in the retrying proxy, at every loop head the requests issued so far
\* plus the retries remaining make 3; when the loop is left without an
\* exception the response variable holds the response of the last request
\* issued, so the "Failed to get response" branch is never taken.
FailedToGetResponse ==
    <<"Failed to get response from DeepSeek API after multiple attempts">>

C36_RetryLoopInvariant ==
    variant \in Variants =>
       /\ ppc = "fetch" => (fetches - 1) + retries = 3 /\ Len(attempts) = fetches - 1
       /\ ppc = "backoff" => fetches + retries = 3 /\ Len(attempts) = fetches
       /\ ppc \in {"text", "json"} =>
             /\ Len(attempts) = fetches
             /\ attempts[fetches].kind = "status"
             /\ response # NoResponse
             /\ response.status = attempts[fetches].status
             /\ Retryable(variant, response.status) => retries = 0
       /\ (ppc = "done" /\ result.statusCode = 500 /\ "error" \in DOMAIN result.body) =>
             result.body.error # FailedToGetResponse

\* The first request was answered 502, the second failed on the network, the
\* third was answered 503 and the loop was left with that response.
C36_Witness ==
    /\ variant = "first" /\ ppc = "text" /\ retries = 0 /\ fetches = 3
    /\ attempts[1] = [kind |-> "status", status |-> 502]
    /\ attempts[2].kind # "status"
    /\ response.status = 503

\* C37: the retrying proxy sleeps a backoff delay only between two attempts;
\* after the third attempt has failed it answers without sleeping first.
C37_NoBackoffAfterLastAttempt ==
    variant \in Variants =>
       /\ ppc = "backoff" => retries > 0
       /\ Len(waits) <= 2

\* C38: the resilient RAG handler writes exactly one HTTP response per request,
\* whatever the outcomes of its stages: none while it runs, one when it has
\* ended, never two.
C38_SingleResponse ==
    \A r \in Req :
       /\ written[r] <= 1
       /\ pc[r] = "done" <=> written[r] = 1
       /\ resp[r] # NoResp <=> written[r] = 1
       /\ pc[r] = "idle" => written[r] = 0

\* A request whose sources list could not be built (a stored response that is
\* no string) after a successful search: one response, the 500 of the outer
\* catch; and a request that lost its connection race while the connection
\* completed afterwards.
C38_Witness ==
    /\ \E r \in Req :
          /\ pc[r] = "done" /\ written[r] = 1
          /\ outcome[r]["search"] = "ok"
          /\ SourcesThrow(queryResult[r])
          /\ resp[r] = InternalError("TypeError")
    /\ \E r \in Req :
          /\ pc[r] = "done" /\ written[r] = 1
          /\ outcome[r]["connect"] = "timeout"
          /\ attempt[callP[r]] = "resolved"

\* C39: when the upstream stream has ended, the payload of every data line the
\* upstream sent has been forwarded exactly once and in order, the one of a
\* last line that no newline follows included.
C39_NoPayloadLost ==
    Relayed => Forwarded = DataPayloads(Split(upstream))

\* C40: in the basic handler, requests that call connectToDatabase before the
\* first connection has completed share one client.connect(): at most one
\* connection attempt is in flight, and two calls that each ended with a
\* connection of their own making do not exist (they hold the same handle).
C40_BasicSingleConnect ==
    /\ Cardinality(InFlight) <= 1
    /\ \A r, t \in Req :
          (/\ callSt[r] = "adopt" /\ callSt[t] = "adopt"
           /\ attempt[callP[r]] = "resolved" /\ attempt[callP[t]] = "resolved")
             => callP[r] = callP[t]

====
